---- MODULE Spec2Model ----
(***************************************************************************)
(* The session handlers of the interconnect example servers (chat, game),  *)
(* the request handlers of the forum and microblog examples, and the       *)
(* interconnect-core identity type, as a state machine.                    *)
(*                                                                         *)
(* One server process runs: `app` says which example binary it is, and     *)
(* `mode` which clients connect: one client that may write any frame       *)
(* ("solo", and "nopeer" when the server was started without --peer), one  *)
(* client that writes the frames of a normal session                       *)
(* ("lone"), two such clients that                                         *)
(* race each other ("duo"), clients that arrive with passports of every    *)
(* kind ("import"), one client that stays while the zone ticks             *)
(* ("ticks"), two clients that walk to the same item ("items"), or one     *)
(* client that comes from another zone and travels on ("trip"), or two     *)
(* clients that post to a chat whose log is nearly full ("log").  Each     *)
(* element of Sessions is one accepted WebSocket connection, handled by    *)
(* one task running handle_connection; pc[s] is the await point that task  *)
(* is suspended at.  wire[s] holds every frame the client has written to   *)
(* the connection, in order; the handler has consumed the first rcvd[s]    *)
(* of them with stream.next().  sent[s] holds every message the handler    *)
(* has written to the client with sink.send().                             *)
(*                                                                         *)
(* `forum` is the ServerState of the forum binary, `blog` that of the      *)
(* microblog binary, and `resp` the response of the request they handled   *)
(* last.  `lib` is a caller of the identity and                            *)
(* passport types of interconnect-core: the identity it holds, the text it *)
(* formatted it to, what parsing gave, and the passport it built.          *)
(*                                                                         *)
(* `sync` is the RwLock around the server's shared state as the tasks use  *)
(* it in a "lock" run: who holds it, who waits for it in which order, and  *)
(* how much each client has left unread of what was written to it.         *)
(*                                                                         *)
(* Text that the code parses (identities) is a sequence of characters.     *)
(***************************************************************************)
EXTENDS Integers, Sequences, FiniteSets, TLC

VARIABLES app, mode, wire, rcvd, pc, ident, dname, sent, bcast, rxpos,
          users, messages, world, forum, resp, lib, sync, blog

vars == <<app, mode, wire, rcvd, pc, ident, dname, sent, bcast, rxpos,
          users, messages, world, forum, resp, lib, sync, blog>>

\* What no chat or game handler touches.
aside == <<forum, resp, lib, sync, blog>>

(* ------------------------------ bounds --------------------------------- *)

\* Frames the client of a solo run writes to its connection.
MaxFrames == 3
\* Frames each client of a duo run writes to its connection.
MaxDuoFrames == 2
\* Ticks of the game's tick loop in a solo run, and in a duo run.
MaxTick == 2
MaxDuoTick == 1
\* Ticks of a "ticks" run: more than the tick channel holds.
MaxLagTick == 18
\* Frames the first and the second client of an "import" run write.
MaxImportFrames == 2
MaxReplayFrames == 1
\* Frames each client of an "items" run writes, and the ticks of that run.
MaxItemFrames == 3
MaxItemTick == 1
\* Frames the client of a "trip" run writes.
MaxTripFrames == 4
\* Frames the first client of a "log" run writes; the second writes one less.
MaxLogFrames == 3

Sessions == {"s1", "s2"}

(* ------------------------ interconnect-core ---------------------------- *)

SchemeLocal == <<"l", "o", "c", "a", "l">>
SchemeUrl == <<"u", "r", "l">>

Identity_new(scheme, payload) == [scheme |-> scheme, payload |-> payload]

Identity_local(name) == Identity_new(SchemeLocal, name)

Identity_url(user_at_server) == Identity_new(SchemeUrl, user_at_server)

\* An is_local that compares the scheme without regard to case.
is_local_Folded(id) ==
    LET Lower(c) == IF c = "L" THEN "l" ELSE c IN
    [i \in 1..Len(id.scheme) |-> Lower(id.scheme[i])] = SchemeLocal

\* Identity::is_local: self.scheme == "local"
is_local(id) == id.scheme = SchemeLocal

\* impl Display: "{scheme}:{payload}"
Display(id) == id.scheme \o <<":">> \o id.payload

MinOf(S) == CHOOSE x \in S : \A y \in S : x <= y

\* A split at the last ':' of the text (str::rsplit_once).
split_once_Last(s) ==
    LET at == {i \in 1..Len(s) : s[i] = ":"}
        last == CHOOSE x \in at : \A y \in at : x >= y
    IN  IF at = {} THEN [some |-> FALSE]
        ELSE [some |-> TRUE,
              head |-> SubSeq(s, 1, last - 1),
              tail |-> SubSeq(s, last + 1, Len(s))]

\* str::split_once(':'): the text before and after the first ':'.
split_once(s) ==
    LET at == {i \in 1..Len(s) : s[i] = ":"} IN
    IF at = {} THEN [some |-> FALSE]
    ELSE [some |-> TRUE,
          head |-> SubSeq(s, 1, MinOf(at) - 1),
          tail |-> SubSeq(s, MinOf(at) + 1, Len(s))]

\* impl FromStr for Identity
from_str(s) ==
    LET sp == split_once(s) IN
    IF ~sp.some THEN [ok |-> FALSE, err |-> "MissingColon"]
    ELSE IF sp.head = <<>> THEN [ok |-> FALSE, err |-> "EmptyScheme"]
    ELSE [ok |-> TRUE, val |-> Identity_new(sp.head, sp.tail)]

\* The value of `ident` while no Auth has been accepted (no Identity has an
\* empty scheme on the wire: from_str refuses it).
NoIdentity == Identity_new(<<>>, <<>>)

None == [some |-> FALSE]
Some(v) == [some |-> TRUE, val |-> v]

\* Passport::new (transfer.rs)
Passport_new(identity, data) ==
    [identity |-> identity, data |-> data, signature |-> None]

\* A signed constructor that leaves the signature out.
Passport_signed_Dropped(identity, data, signature) ==
    [identity |-> identity, data |-> data, signature |-> None]

\* Passport::signed (transfer.rs)
Passport_signed(identity, data, signature) ==
    [identity |-> identity, data |-> data, signature |-> Some(signature)]

(* --------------------------- configuration ----------------------------- *)

\* --name and --peer of the running server: a "nopeer" run has no --peer.
ServerName == "A"
Peer == IF mode = "nopeer" THEN None ELSE Some("ws://B")

Alice == Identity_local(<<"a">>)
Bob == Identity_local(<<"b">>)


(* ------------------------------ helpers -------------------------------- *)

\* The least and the greatest value of an i32 field.
MaxI32 == 2147483647
MinI32 == -MaxI32 - 1

EmptyMap == [x \in {} |-> 0]

\* HashMap::insert: a new entry, or the value of an existing key replaced.
Insert(m, k, v) == [x \in DOMAIN m \cup {k} |-> IF x = k THEN v ELSE m[x]]

\* HashMap::remove
Remove(m, k) == [x \in DOMAIN m \ {k} |-> m[x]]

\* iter().rev().take(n).rev(): the last n elements, in order.
LastN(seq, n) ==
    IF Len(seq) <= n THEN seq ELSE SubSeq(seq, Len(seq) - n + 1, Len(seq))

\* A removal that leaves the sequence as it was.
RemoveAt_Keep(seq, i) == seq

\* Vec::remove(i), i counted from 1 here.
RemoveAt(seq, i) == SubSeq(seq, 1, i - 1) \o SubSeq(seq, i + 1, Len(seq))

\* Bytes a server may be handed that are no JSON document at all.
GarbageBytes == [json |-> FALSE, obj |-> [junk |-> 0]]

(* --------------------------- transport --------------------------------- *)

\* What stream.next().await yields for a frame of the connection:
\* Some(Ok(Message::Text)), Some(Ok(other message)), Some(Err), None.
FrameKinds == {"text", "binary", "error", "close"}

TextFrame(doc) == [k |-> "text", text |-> doc]
BinaryFrame == [k |-> "binary"]
ErrorFrame == [k |-> "error"]
CloseFrame == [k |-> "close"]

\* A JSON document of a text frame: `json` is whether it is JSON at all,
\* `msg` the object it holds (identities still in their text form).
Json(msg) == [json |-> TRUE, msg |-> msg]
NotJson == [json |-> FALSE, msg |-> [type |-> "none"]]

\* The frame the handler of s reads next.
NextFrame(s) == wire[s][rcvd[s] + 1]

HasFrame(s) == rcvd[s] < Len(wire[s])

\* The tasks that have returned from handle_connection.
Returned == {"done", "failed"}

\* broadcast::Sender::send: the value is queued when a receiver exists, and
\* dropped (Err, ignored by every caller) when none does.
broadcast_send(queue, m) ==
    IF \E s \in Sessions : rxpos[s] > 0 /\ pc[s] \notin Returned
    THEN Append(queue, m) ELSE queue

(* ----------------------- chat: protocol.rs ----------------------------- *)

ChatPassport_new(name, origin) == [name |-> name, origin |-> origin]

\* serde_json::to_vec(self): a JSON object of the struct's fields.
ChatPassport_to_bytes(p) ==
    [json |-> TRUE, obj |-> [name |-> p.name, origin |-> p.origin]]

\* serde_json::from_slice(data).ok(): Some when the bytes are a JSON object
\* holding both fields, None otherwise.
ChatPassport_from_bytes(data) ==
    IF data.json /\ {"name", "origin"} \subseteq DOMAIN data.obj
    THEN Some(ChatPassport_new(data.obj.name, data.obj.origin))
    ELSE None

\* serde_json::from_str::<WireMessage>(&text): the identity of an Auth is
\* deserialized with Identity::try_from(String), so a malformed identity
\* fails the whole message.
ChatWire_from_str(doc) ==
    IF ~doc.json THEN [ok |-> FALSE]
    ELSE IF doc.msg.type = "auth"
    THEN LET id == from_str(doc.msg.identity) IN
         IF id.ok
         THEN [ok |-> TRUE,
               val |-> [type |-> "auth", identity |-> id.val,
                        passport |-> doc.msg.passport]]
         ELSE [ok |-> FALSE]
    ELSE [ok |-> TRUE, val |-> doc.msg]

(* ------------------------- chat: server.rs ----------------------------- *)

\* Keep last 100 messages / take(50) of ServerState::snapshot.
ChatLogCap == 100
ChatSnapshotLen == 50
\* broadcast::channel::<String>(100)
ChatBroadcastCap == 100

\* A log that takes the newest message at its front.
add_message_Front(log, from, text) ==
    LET pushed == <<[from |-> from, text |-> text]>> \o log IN
    IF Len(pushed) > ChatLogCap THEN Tail(pushed) ELSE pushed

\* ServerState::add_message (the timestamp, which nothing reads, left out).
add_message(log, from, text) ==
    LET pushed == Append(log, [from |-> from, text |-> text]) IN
    IF Len(pushed) > ChatLogCap THEN Tail(pushed) ELSE pushed

\* A snapshot that shows the oldest 50 messages of the log.
ServerState_snapshot_Oldest(log, reg) ==
    [type |-> "snapshot",
     messages |-> SubSeq(log, 1, IF Len(log) < ChatSnapshotLen
                                 THEN Len(log) ELSE ChatSnapshotLen),
     users |-> [n \in {reg[i] : i \in DOMAIN reg} |->
                  Cardinality({i \in DOMAIN reg : reg[i] = n})]]

\* ServerState::snapshot: the last 50 messages and the display names of the
\* registry (a Vec in the map's iteration order: a bag of names).
ServerState_snapshot(log, reg) ==
    [type |-> "snapshot",
     messages |-> LastN(log, ChatSnapshotLen),
     users |-> [n \in {reg[i] : i \in DOMAIN reg} |->
                  Cardinality({i \in DOMAIN reg : reg[i] = n})]]

\* The display name an accepted Auth gives the session.
ChatDisplayName(identity, passport) ==
    IF passport.some
    THEN LET p == ChatPassport_from_bytes(passport.val) IN
         IF p.some THEN p.val.name ELSE identity.payload
    ELSE identity.payload

\* A "wait for auth" loop that returns Err on a well-formed message that is
\* no Auth.
ChatAuthStep_RejectOther(f) ==
    IF f.k \in {"close", "error"} THEN [next |-> "fail"]
    ELSE IF f.k # "text" THEN [next |-> "stay"]
    ELSE LET w == ChatWire_from_str(f.text) IN
         IF ~w.ok THEN [next |-> "fail"]
         ELSE IF w.val.type = "auth"
         THEN [next |-> "accept", identity |-> w.val.identity,
               display_name |-> ChatDisplayName(w.val.identity, w.val.passport)]
         ELSE [next |-> "fail"]

\* One turn of the "wait for auth" loop on frame f: the handler returns Err
\* ("fail"), loops ("stay"), or breaks with (identity, display_name).
ChatAuthStep(f) ==
    IF f.k \in {"close", "error"} THEN [next |-> "fail"]
    ELSE IF f.k # "text" THEN [next |-> "stay"]
    ELSE LET w == ChatWire_from_str(f.text) IN
         IF ~w.ok THEN [next |-> "fail"]
         ELSE IF w.val.type = "auth"
         THEN [next |-> "accept", identity |-> w.val.identity,
               display_name |-> ChatDisplayName(w.val.identity, w.val.passport)]
         ELSE [next |-> "stay"]

\* A transfer arm that lets every destination pass when no peer is
\* configured.
ChatTransferReply_AnyPeer(display_name, destination) ==
    IF Peer.some /\ Peer # Some(destination)
    THEN [type |-> "error", message |-> <<"Unknown destination: ", destination>>]
    ELSE [type |-> "transfer", destination |-> destination,
          passport |-> ChatPassport_to_bytes(
                           ChatPassport_new(display_name, ServerName))]

\* handle_intent, ChatIntent::Transfer: the one message written to the client.
ChatTransferReply(display_name, destination) ==
    IF Peer # Some(destination)
    THEN [type |-> "error", message |-> <<"Unknown destination: ", destination>>]
    ELSE [type |-> "transfer", destination |-> destination,
          passport |-> ChatPassport_to_bytes(
                           ChatPassport_new(display_name, ServerName))]

\* An "Unregister user" block that leaves the registry as it is.
ChatUnregister_Keep(reg, identity) == reg

\* The registry after the "Unregister user" block.
ChatUnregister(reg, identity) == Remove(reg, identity)


\* What a chat client may write as frame number k of connection s: in a
\* solo run any kind of frame, in a duo run the frames of a normal session.
ChatAuthFrame(id, pp) ==
    TextFrame(Json([type |-> "auth", identity |-> id, passport |-> pp]))

ChatIntentFrame(intent) ==
    TextFrame(Json([type |-> "intent", intent |-> intent]))

ChatClientFrames(s, k) ==
    IF mode = "log"
    THEN IF k = 1
         THEN {ChatAuthFrame(Display(IF s = "s1" THEN Alice ELSE Bob), None)}
         ELSE {ChatIntentFrame([type |-> "message", text |-> <<s, k>>]), CloseFrame}
    ELSE IF mode \in {"solo", "nopeer"}
    THEN {ChatAuthFrame(Display(Alice), pp) :
             pp \in {None, Some(GarbageBytes),
                     Some(ChatPassport_to_bytes(ChatPassport_new(<<"z">>, "B")))}}
         \cup {ChatAuthFrame(<<"a">>, None)}
         \cup {ChatIntentFrame([type |-> "message", text |-> <<s, k>>])}
         \cup {ChatIntentFrame([type |-> "transfer", destination |-> d]) :
                 d \in {"ws://B", "ws://C"}}
         \cup {TextFrame(Json([type |-> "system", text |-> <<"hello">>])),
               TextFrame(NotJson), BinaryFrame, ErrorFrame, CloseFrame}
    ELSE {ChatAuthFrame(Display(id), None) : id \in {Alice, Bob}}
         \cup {ChatIntentFrame([type |-> "message", text |-> <<s, k>>]),
               ChatIntentFrame([type |-> "transfer", destination |-> "ws://B"]),
               ErrorFrame, CloseFrame}

\* sink.send(msg).await?: the write succeeds and the handler goes on at
\* `next`, or it fails and the handler returns Err at once.
SendOrFail(s, msg, next) ==
    \/ /\ sent' = [sent EXCEPT ![s] = Append(@, msg)]
       /\ pc' = [pc EXCEPT ![s] = next]
    \/ /\ sent' = sent
       /\ pc' = [pc EXCEPT ![s] = "failed"]

\* server.rs 93-112: one frame read while waiting for auth.
ChatWaitAuth(s) ==
    /\ app = "chat" /\ pc[s] = "auth" /\ HasFrame(s)
    /\ rcvd' = [rcvd EXCEPT ![s] = @ + 1]
    /\ LET r == ChatAuthStep(NextFrame(s)) IN
       /\ pc' = [pc EXCEPT ![s] = CASE r.next = "fail" -> "failed"
                                    [] r.next = "stay" -> "auth"
                                    [] r.next = "accept" -> "manifest"]
       /\ ident' = [ident EXCEPT ![s] = IF r.next = "accept" THEN r.identity ELSE @]
       /\ dname' = [dname EXCEPT ![s] = IF r.next = "accept" THEN r.display_name ELSE @]
    /\ UNCHANGED <<aside, app, mode, wire, sent, bcast, rxpos, users, messages, world>>

\* WireMessage::Manifest of this server (ServerState::new gives the server
\* the identity local:<name>).
ChatManifest ==
    [type |-> "manifest", name |-> ServerName,
     identity |-> Identity_local(<<"A">>)]

\* server.rs 114-123: send manifest.
ChatSendManifest(s) ==
    /\ app = "chat" /\ pc[s] = "manifest"
    /\ SendOrFail(s, ChatManifest, "register")
    /\ UNCHANGED <<aside, app, mode, wire, rcvd, ident, dname, bcast, rxpos, users, messages, world>>

\* server.rs 125-129: register user.
ChatRegister(s) ==
    /\ app = "chat" /\ pc[s] = "register"
    /\ users' = Insert(users, ident[s], dname[s])
    /\ pc' = [pc EXCEPT ![s] = "join"]
    /\ UNCHANGED <<aside, app, mode, wire, rcvd, ident, dname, sent, bcast, rxpos, messages, world>>

\* server.rs 131-133: broadcast join.
ChatBroadcastJoin(s) ==
    /\ app = "chat" /\ pc[s] = "join"
    /\ bcast' = broadcast_send(bcast, [type |-> "system", text |-> <<dname[s], " joined">>])
    /\ pc' = [pc EXCEPT ![s] = "snapshot"]
    /\ UNCHANGED <<aside, app, mode, wire, rcvd, ident, dname, sent, rxpos, users, messages, world>>

\* server.rs 135-141: send initial snapshot.
ChatSendSnapshot(s) ==
    /\ app = "chat" /\ pc[s] = "snapshot"
    /\ SendOrFail(s, ServerState_snapshot(messages, users), "subscribe")
    /\ UNCHANGED <<aside, app, mode, wire, rcvd, ident, dname, bcast, rxpos, users, messages, world>>

\* server.rs 143-144: broadcast_tx.subscribe(): the receiver sees what is
\* sent from now on.
Subscribe(s) ==
    /\ pc[s] = "subscribe"
    /\ rxpos' = [rxpos EXCEPT ![s] = Len(bcast) + 1]
    /\ pc' = [pc EXCEPT ![s] = "live"]
    /\ UNCHANGED <<aside, app, mode, wire, rcvd, ident, dname, sent, bcast, users, messages, world>>

\* A handler that turns to its main loop before the first Snapshot / the
\* Welcome is sent.
InMainLoop_Early(s) == pc[s] \in {"snapshot", "welcome", "live"}

\* The handler is at the select! of its main loop.
InMainLoop(s) == pc[s] = "live"

\* A main loop that ends the session on a text frame that is no Intent.
ChatLiveFrame_Strict(s) ==
    /\ app = "chat" /\ InMainLoop(s) /\ HasFrame(s)
    /\ rcvd' = [rcvd EXCEPT ![s] = @ + 1]
    /\ LET f == NextFrame(s)
           w == ChatWire_from_str(f.text)
       IN  IF f.k \in {"close", "error"}
           THEN /\ pc' = [pc EXCEPT ![s] = "unregister"]
                /\ UNCHANGED <<sent, bcast, messages>>
           ELSE IF f.k # "text"
           THEN UNCHANGED <<pc, sent, bcast, messages>>
           ELSE IF ~w.ok \/ w.val.type # "intent"
           THEN /\ pc' = [pc EXCEPT ![s] = "unregister"]
                /\ UNCHANGED <<sent, bcast, messages>>
           ELSE IF w.val.intent.type = "message"
           THEN /\ messages' = add_message(messages, dname[s], w.val.intent.text)
                /\ bcast' = broadcast_send(bcast, ServerState_snapshot(messages', users))
                /\ UNCHANGED <<pc, sent>>
           ELSE /\ SendOrFail(s, ChatTransferReply(dname[s], w.val.intent.destination), "live")
                /\ UNCHANGED <<bcast, messages>>
    /\ UNCHANGED <<aside, app, mode, wire, ident, dname, rxpos, users, world>>

\* server.rs 150-178 and handle_intent 203-253: the select! arm of
\* stream.next(), with the intent handled before the loop turns again.
ChatLiveFrame(s) ==
    /\ app = "chat" /\ InMainLoop(s) /\ HasFrame(s)
    /\ rcvd' = [rcvd EXCEPT ![s] = @ + 1]
    /\ LET f == NextFrame(s)
           w == ChatWire_from_str(f.text)
       IN  IF f.k \in {"close", "error"}
           THEN /\ pc' = [pc EXCEPT ![s] = "unregister"]
                /\ UNCHANGED <<sent, bcast, messages>>
           ELSE IF f.k # "text" \/ ~w.ok \/ w.val.type # "intent"
           THEN UNCHANGED <<pc, sent, bcast, messages>>
           ELSE IF w.val.intent.type = "message"
           THEN /\ messages' = add_message(messages, dname[s], w.val.intent.text)
                /\ bcast' = broadcast_send(bcast, ServerState_snapshot(messages', users))
                /\ UNCHANGED <<pc, sent>>
           ELSE /\ SendOrFail(s, ChatTransferReply(dname[s], w.val.intent.destination), "live")
                /\ UNCHANGED <<bcast, messages>>
    /\ UNCHANGED <<aside, app, mode, wire, ident, dname, rxpos, users, world>>

\* broadcast::Receiver::recv at position p of a queue holding the last `cap`
\* values: Err(Lagged) moves the receiver to the oldest value kept.
Lagged(queue, p, cap) == Len(queue) - p + 1 > cap

\* server.rs 180-185: the select! arm of broadcast_rx.recv().
ChatLiveBroadcast(s) ==
    /\ app = "chat" /\ pc[s] = "live" /\ rxpos[s] > 0 /\ rxpos[s] <= Len(bcast)
    /\ IF Lagged(bcast, rxpos[s], ChatBroadcastCap)
       THEN /\ rxpos' = [rxpos EXCEPT ![s] = Len(bcast) - ChatBroadcastCap + 1]
            /\ UNCHANGED <<pc, sent>>
       ELSE /\ rxpos' = [rxpos EXCEPT ![s] = @ + 1]
            /\ SendOrFail(s, bcast[rxpos[s]], "live")
    /\ UNCHANGED <<aside, app, mode, wire, rcvd, ident, dname, bcast, users, messages, world>>

\* server.rs 189-193: unregister user.
ChatUnregisterUser(s) ==
    /\ app = "chat" /\ pc[s] = "unregister"
    /\ users' = ChatUnregister(users, ident[s])
    /\ pc' = [pc EXCEPT ![s] = "leave"]
    /\ UNCHANGED <<aside, app, mode, wire, rcvd, ident, dname, sent, bcast, rxpos, messages, world>>

\* server.rs 195-200: broadcast leave, return Ok.
ChatBroadcastLeave(s) ==
    /\ app = "chat" /\ pc[s] = "leave"
    /\ bcast' = broadcast_send(bcast, [type |-> "system", text |-> <<dname[s], " left">>])
    /\ pc' = [pc EXCEPT ![s] = "done"]
    /\ UNCHANGED <<aside, app, mode, wire, rcvd, ident, dname, sent, rxpos, users, messages, world>>

(* ----------------------- game: protocol.rs ----------------------------- *)

ItemKinds == {"Sword", "Shield", "Potion", "Key", "Gem", "Torch"}

\* A zone's notion of weapon that takes a shield for one.
is_weapon_Armed(kind) == kind \in {"Sword", "Shield"}

\* ItemKind::is_weapon
is_weapon(kind) == kind = "Sword"

InventoryItem(kind, count) == [kind |-> kind, count |-> count]

WorldItem(id, kind, x, y) == [id |-> id, kind |-> kind, x |-> x, y |-> y]

\* GamePassport::to_bytes: serde_json::to_vec, the identity in its text form.
GamePassport_to_bytes(p) ==
    [json |-> TRUE,
     obj |-> [identity |-> Display(p.identity), name |-> p.name,
              health |-> p.health, max_health |-> p.max_health,
              inventory |-> p.inventory, origin_zone |-> p.origin_zone]]

\* GamePassport::from_bytes: serde_json::from_slice(data).ok(): Some when the
\* bytes are a JSON object with every field, health and max_health that are
\* no negative numbers, and a well-formed identity.
GamePassport_from_bytes(data) ==
    IF /\ data.json
       /\ {"identity", "name", "health", "max_health", "inventory", "origin_zone"}
              \subseteq DOMAIN data.obj
       /\ data.obj.health >= 0
       /\ data.obj.max_health >= 0
    THEN LET id == from_str(data.obj.identity) IN
         IF id.ok
         THEN Some([identity |-> id.val, name |-> data.obj.name,
                    health |-> data.obj.health, max_health |-> data.obj.max_health,
                    inventory |-> data.obj.inventory,
                    origin_zone |-> data.obj.origin_zone])
         ELSE None
    ELSE None

(* ------------------------- game: world.rs ------------------------------ *)

\* Player::new
Player_new(identity, name) ==
    [identity |-> identity, name |-> name, x |-> 0, y |-> 0,
     health |-> 100, max_health |-> 100, inventory |-> <<>>]

\* A player built with the health the passport states, not the health the
\* import policy decided on.
Player_from_passport_AsStated(passport, import) ==
    [identity |-> passport.identity, name |-> passport.name, x |-> 0, y |-> 0,
     health |-> passport.health, max_health |-> passport.max_health,
     inventory |-> import.accepted_items]

\* Player::from_passport
Player_from_passport(passport, import) ==
    [identity |-> passport.identity, name |-> passport.name, x |-> 0, y |-> 0,
     health |-> import.health, max_health |-> passport.max_health,
     inventory |-> import.accepted_items]

\* A passport that names the player by a local identity made of its name.
Player_to_passport_ByName(player, origin_zone) ==
    [identity |-> Identity_local(player.name), name |-> player.name,
     health |-> player.health, max_health |-> player.max_health,
     inventory |-> player.inventory, origin_zone |-> origin_zone]

\* Player::to_passport
Player_to_passport(player, origin_zone) ==
    [identity |-> player.identity, name |-> player.name,
     health |-> player.health, max_health |-> player.max_health,
     inventory |-> player.inventory, origin_zone |-> origin_zone]

\* Player::to_state
Player_to_state(player) ==
    [identity |-> player.identity, name |-> player.name,
     x |-> player.x, y |-> player.y, health |-> player.health,
     equipped |-> IF player.inventory = <<>> THEN None
                  ELSE Some(player.inventory[1].kind)]

\* A clamp that has no lower bound.
clamp_NoFloor(v, lo, hi) == IF v > hi THEN hi ELSE v

\* f32/u32::clamp(lo, hi)
clamp(v, lo, hi) == IF v < lo THEN lo ELSE IF v > hi THEN hi ELSE v

\* Player::move_by (coordinates and steps are whole numbers here)
move_by(player, dx, dy) ==
    [player EXCEPT !.x = clamp(player.x + dx, -100, 100),
                   !.y = clamp(player.y + dy, -100, 100)]

\* name.to_lowercase().contains("cave") for the zone names used here.
CaveNames == {"Cave"}

\* World::new, with the four items it spawns.
World_new(name) ==
    [name |-> name, tick |-> 0, players |-> EmptyMap,
     items |-> <<WorldItem(1, "Potion", 5, 5), WorldItem(2, "Sword", -5, 3),
                 WorldItem(3, "Torch", 0, -5), WorldItem(4, "Gem", 10, 10)>>,
     allow_weapons |-> name \notin CaveNames, next_item_id |-> 5]

\* World::apply_import_policy
apply_import_policy(w, passport) ==
    LET refused(item) == ~w.allow_weapons /\ is_weapon(item.kind) IN
    [accepted_items |-> SelectSeq(passport.inventory, LAMBDA i : ~refused(i)),
     rejected_items |->
        [k \in 1..Len(SelectSeq(passport.inventory, refused)) |->
            <<SelectSeq(passport.inventory, refused)[k],
              "Weapons not allowed in this zone">>],
     health |-> clamp(passport.health, 1, 100)]

\* An add_player that keys the entry by a local identity of the player's
\* name.
add_player_ByName(w, player) ==
    [w EXCEPT !.players = Insert(w.players, Identity_local(player.name), player)]

\* World::add_player
add_player(w, player) ==
    [w EXCEPT !.players = Insert(w.players, player.identity, player)]

\* World::remove_player
remove_player(w, identity) ==
    [w EXCEPT !.players = Remove(w.players, identity)]

\* World::tick
World_tick(w) == [w EXCEPT !.tick = w.tick + 1]

\* A snapshot that does not carry the zone's tick.
World_snapshot_Untimed(w) ==
    [type |-> "snapshot", tick |-> 0,
     players |-> {Player_to_state(w.players[i]) : i \in DOMAIN w.players},
     items |-> w.items, zone_name |-> w.name]

\* World::snapshot (the players in the map's iteration order: a set).
World_snapshot(w) ==
    [type |-> "snapshot", tick |-> w.tick,
     players |-> {Player_to_state(w.players[i]) : i \in DOMAIN w.players},
     items |-> w.items, zone_name |-> w.name]

(* ------------------------- game: server.rs ----------------------------- *)

\* broadcast::channel::<GameSnapshot>(16)
GameBroadcastCap == 16

\* serde_json::from_str::<WireMessage>(&text) of the game.
GameWire_from_str(doc) ==
    IF ~doc.json THEN [ok |-> FALSE]
    ELSE IF doc.msg.type = "auth"
    THEN LET id == from_str(doc.msg.identity) IN
         IF id.ok
         THEN [ok |-> TRUE,
               val |-> [type |-> "auth", identity |-> id.val,
                        name |-> doc.msg.name, passport |-> doc.msg.passport]]
         ELSE [ok |-> FALSE]
    ELSE [ok |-> TRUE, val |-> doc.msg]

\* An admission that lets the bearer of undecodable passport bytes in with
\* no health.
GameAdmit_Wounded(w, identity, name, passport) ==
    LET p == IF passport.some THEN GamePassport_from_bytes(passport.val) ELSE None
        import == apply_import_policy(w, p.val)
    IN  IF p.some
        THEN [report |-> Some([type |-> "import_report",
                  accepted |-> [k \in 1..Len(import.accepted_items) |->
                                    import.accepted_items[k].kind],
                  rejected |-> [k \in 1..Len(import.rejected_items) |->
                                    <<import.rejected_items[k][1].kind,
                                      import.rejected_items[k][2]>>]]),
              player |-> Player_from_passport(p.val, import)]
        ELSE [report |-> None,
              player |-> IF passport.some
                         THEN [Player_new(identity, name) EXCEPT !.health = 0]
                         ELSE Player_new(identity, name)]

\* An admission that reports the import as an Error message.
GameAdmit_ErrorReport(w, identity, name, passport) ==
    LET p == IF passport.some THEN GamePassport_from_bytes(passport.val) ELSE None
        import == apply_import_policy(w, p.val)
    IN  IF p.some
        THEN [report |-> Some([type |-> "error",
                  message |-> [k \in 1..Len(import.rejected_items) |->
                                    <<import.rejected_items[k][1].kind,
                                      import.rejected_items[k][2]>>]]),
              player |-> Player_from_passport(p.val, import)]
        ELSE [report |-> None, player |-> Player_new(identity, name)]

\* server.rs 116-151: what an accepted Auth admits: the ImportReport to send
\* first (if the passport decodes) and the player to add.
GameAdmit(w, identity, name, passport) ==
    LET p == IF passport.some THEN GamePassport_from_bytes(passport.val) ELSE None
        import == apply_import_policy(w, p.val)
    IN  IF p.some
        THEN [report |-> Some([type |-> "import_report",
                  accepted |-> [k \in 1..Len(import.accepted_items) |->
                                    import.accepted_items[k].kind],
                  rejected |-> [k \in 1..Len(import.rejected_items) |->
                                    <<import.rejected_items[k][1].kind,
                                      import.rejected_items[k][2]>>]]),
              player |-> Player_from_passport(p.val, import)]
        ELSE [report |-> None, player |-> Player_new(identity, name)]

\* One turn of the game's "wait for auth" loop on frame f, before the lock
\* is taken: the handler returns Err ("fail"), loops ("stay"), or goes on to
\* admit the player ("accept").
GameAuthStep(f) ==
    IF f.k \in {"close", "error"} THEN [next |-> "fail"]
    ELSE IF f.k # "text" THEN [next |-> "stay"]
    ELSE LET w == GameWire_from_str(f.text) IN
         IF ~w.ok THEN [next |-> "fail"]
         ELSE IF w.val.type = "auth"
         THEN [next |-> "accept", identity |-> w.val.identity,
               name |-> w.val.name, passport |-> w.val.passport]
         ELSE [next |-> "stay"]

\* handle_intent 228-285: the world after Move, PickUp, UseItem or Drop of
\* the session authenticated as `identity`.
GameApply(w, identity, intent) ==
    IF identity \notin DOMAIN w.players THEN w
    ELSE LET player == w.players[identity] IN
    CASE intent.type = "move" ->
           [w EXCEPT !.players[identity] = move_by(player, intent.dx, intent.dy)]
      [] intent.type = "pick_up" ->
           LET at == {i \in 1..Len(w.items) : w.items[i].id = intent.item_id}
               idx == MinOf(at)
               item == w.items[idx]
           IN  IF at # {} /\ (player.x - item.x) * (player.x - item.x)
                             + (player.y - item.y) * (player.y - item.y) < 4
               THEN [w EXCEPT !.items = RemoveAt(w.items, idx),
                              !.players[identity].inventory =
                                  Append(player.inventory, InventoryItem(item.kind, 1))]
               ELSE w
      [] intent.type = "use_item" ->
           IF /\ intent.slot + 1 <= Len(player.inventory)
              /\ player.inventory[intent.slot + 1].kind = "Potion"
           THEN [w EXCEPT !.players[identity].health =
                              IF player.health + 25 < player.max_health
                              THEN player.health + 25 ELSE player.max_health,
                          !.players[identity].inventory =
                              RemoveAt(player.inventory, intent.slot + 1)]
           ELSE w
      [] intent.type = "drop" ->
           IF intent.slot < Len(player.inventory)
           THEN [w EXCEPT !.players[identity].inventory =
                              RemoveAt(player.inventory, intent.slot + 1),
                          !.items = Append(w.items,
                              WorldItem(w.tick, player.inventory[intent.slot + 1].kind,
                                        player.x, player.y))]
           ELSE w

\* handle_intent 287-308, GameIntent::Transfer: the message written to the
\* client, if any.
GameTransferReply(w, identity, destination) ==
    IF Peer # Some(destination)
    THEN Some([type |-> "error",
               message |-> <<"Unknown destination: ", destination>>])
    ELSE IF identity \in DOMAIN w.players
    THEN Some([type |-> "transfer", destination |-> destination,
               passport |-> GamePassport_to_bytes(
                                Player_to_passport(w.players[identity], w.name))])
    ELSE None

\* What a game client may write as frame number k of connection s.
GameAuthFrame(id, name, pp) ==
    TextFrame(Json([type |-> "auth", identity |-> id, name |-> name,
                    passport |-> pp]))

GameIntentFrame(intent) ==
    TextFrame(Json([type |-> "intent", intent |-> intent]))

\* Passports minted by a peer zone "B": one for Alice with health out of
\* range, a potion and a sword; one that names Bob, with health 0.
PassportAlice ==
    [identity |-> Alice, name |-> <<"z">>, health |-> 500, max_health |-> 100,
     inventory |-> <<InventoryItem("Potion", 1), InventoryItem("Sword", 1)>>,
     origin_zone |-> "B"]

PassportBob ==
    [identity |-> Bob, name |-> <<"y">>, health |-> 0, max_health |-> 100,
     inventory |-> <<>>, origin_zone |-> "B"]

\* One for Alice from a zone whose players have at most 50 health, with
\* more health than that and a potion.
PassportFrail ==
    [identity |-> Alice, name |-> <<"w">>, health |-> 80, max_health |-> 50,
     inventory |-> <<InventoryItem("Potion", 1)>>, origin_zone |-> "B"]

\* One for Alice from a zone whose players have up to 200 health, with a
\* potion and a sword.
PassportHale ==
    [identity |-> Alice, name |-> <<"v">>, health |-> 90, max_health |-> 200,
     inventory |-> <<InventoryItem("Potion", 1), InventoryItem("Sword", 1)>>,
     origin_zone |-> "B"]

\* Passports of every kind: health below, in and above the range the
\* policy keeps, and one that no u32 holds; inventories with and without
\* weapons.
ImportHealths == {-1, 0, 1, 50, 100, 101, 500, MaxI32}

ImportInventories ==
    {<<>>,
     <<InventoryItem("Sword", 1)>>,
     <<InventoryItem("Potion", 2), InventoryItem("Sword", 1), InventoryItem("Gem", 1)>>,
     <<InventoryItem("Sword", 1), InventoryItem("Shield", 1), InventoryItem("Sword", 2)>>}

ImportPassports ==
    {[identity |-> Alice, name |-> <<"z">>, health |-> h, max_health |-> 100,
      inventory |-> inv, origin_zone |-> "B"] :
        h \in ImportHealths, inv \in ImportInventories}

\* The passports a second client presents again.
ReplayPassports ==
    {p \in ImportPassports : p.health \in {50, 500} /\ Len(p.inventory) = 3}

GameClientFrames(s, k) ==
    IF mode = "import"
    THEN IF s = "s1"
         THEN {GameAuthFrame(Display(Alice), <<"a">>, Some(GamePassport_to_bytes(p))) :
                  p \in ImportPassports}
              \cup {GameIntentFrame([type |-> "drop", slot |-> 0]), CloseFrame}
         ELSE {GameAuthFrame(Display(Alice), <<"a">>, Some(GamePassport_to_bytes(p))) :
                  p \in ReplayPassports}
    ELSE IF mode = "ticks"
    THEN {GameAuthFrame(Display(Alice), <<"a">>, None), CloseFrame}
    ELSE IF mode = "trip"
    THEN IF k = 1
         THEN {GameAuthFrame(Display(Alice), <<"a">>, pp) :
                  pp \in {None,
                          Some(GamePassport_to_bytes(PassportAlice)),
                          Some(GamePassport_to_bytes(PassportFrail)),
                          Some(GamePassport_to_bytes(PassportHale))}}
         ELSE {GameIntentFrame(i) :
                  i \in {[type |-> "move", dx |-> 5, dy |-> 5],
                         [type |-> "pick_up", item_id |-> 1],
                         [type |-> "use_item", slot |-> 0],
                         [type |-> "transfer", destination |-> "ws://B"]}}
              \cup {CloseFrame}
    ELSE IF mode = "items"
    THEN IF k = 1
         THEN {GameAuthFrame(Display(id), id.payload, None) :
                  id \in IF s = "s1" THEN {Alice} ELSE {Alice, Bob}}
         ELSE IF s = "s1"
         THEN {GameIntentFrame(i) :
                  i \in {[type |-> "move", dx |-> 5, dy |-> 5],
                         [type |-> "move", dx |-> 5, dy |-> 3],
                         [type |-> "pick_up", item_id |-> 1],
                         [type |-> "pick_up", item_id |-> 9],
                         [type |-> "drop", slot |-> 0]}}
         ELSE {GameIntentFrame([type |-> "move", dx |-> 5, dy |-> 5]),
               GameIntentFrame([type |-> "pick_up", item_id |-> 1]),
               CloseFrame}
    ELSE IF mode \in {"solo", "nopeer"}
    THEN {GameAuthFrame(Display(Alice), <<"a">>, pp) :
             pp \in {None, Some(GarbageBytes),
                     Some(GamePassport_to_bytes(PassportAlice)),
                     Some(GamePassport_to_bytes(PassportBob))}}
         \cup {GameAuthFrame(<<"a">>, <<"a">>, None)}
         \cup {GameIntentFrame(i) :
                 i \in {[type |-> "move", dx |-> 5, dy |-> 5],
                        [type |-> "pick_up", item_id |-> 1],
                        [type |-> "use_item", slot |-> 0],
                        [type |-> "drop", slot |-> 0],
                        [type |-> "transfer", destination |-> "ws://B"],
                        [type |-> "transfer", destination |-> "ws://C"]}}
         \cup {TextFrame(Json([type |-> "welcome", zone_name |-> "x",
                               allow_weapons |-> TRUE])),
               TextFrame(NotJson), BinaryFrame, ErrorFrame, CloseFrame}
    ELSE {GameAuthFrame(Display(id), id.payload, None) : id \in {Alice, Bob}}
         \cup {GameIntentFrame([type |-> "move", dx |-> 5, dy |-> 5]),
               GameIntentFrame([type |-> "pick_up", item_id |-> 1]),
               CloseFrame}

\* server.rs 101-159: one frame read while waiting for auth; an accepted
\* Auth is admitted under the world's write lock.
GameWaitAuth(s) ==
    /\ app = "game" /\ pc[s] = "auth" /\ HasFrame(s)
    /\ rcvd' = [rcvd EXCEPT ![s] = @ + 1]
    /\ LET r == GameAuthStep(NextFrame(s))
           a == GameAdmit(world, r.identity, r.name, r.passport)
           admitted ==
               /\ world' = add_player(world, a.player)
               /\ ident' = [ident EXCEPT ![s] = r.identity]
               /\ dname' = [dname EXCEPT ![s] = a.player.name]
       IN  IF r.next = "fail"
           THEN /\ pc' = [pc EXCEPT ![s] = "failed"]
                /\ UNCHANGED <<ident, dname, sent, world>>
           ELSE IF r.next = "stay"
           THEN UNCHANGED <<pc, ident, dname, sent, world>>
           ELSE IF ~a.report.some
           THEN /\ admitted
                /\ pc' = [pc EXCEPT ![s] = "welcome"]
                /\ sent' = sent
           ELSE \/ /\ admitted
                   /\ pc' = [pc EXCEPT ![s] = "welcome"]
                   /\ sent' = [sent EXCEPT ![s] = Append(@, a.report.val)]
                \/ /\ pc' = [pc EXCEPT ![s] = "failed"]
                   /\ UNCHANGED <<ident, dname, sent, world>>
    /\ UNCHANGED <<aside, app, mode, wire, bcast, rxpos, users, messages>>

\* A handler that greets with a Snapshot of the zone in place of the Welcome.
GameWelcome_AsSnapshot(w) ==
    [type |-> "snapshot", zone_name |-> w.name, allow_weapons |-> w.allow_weapons]

\* WireMessage::Welcome of zone w.
GameWelcome(w) ==
    [type |-> "welcome", zone_name |-> w.name, allow_weapons |-> w.allow_weapons]

\* server.rs 161-170: send welcome.
GameSendWelcome(s) ==
    /\ app = "game" /\ pc[s] = "welcome"
    /\ SendOrFail(s, GameWelcome(world), "subscribe")
    /\ UNCHANGED <<aside, app, mode, wire, rcvd, ident, dname, bcast, rxpos, users, messages, world>>

\* server.rs 179-195 and handle_intent 217-312: the select! arm of
\* stream.next(), with the intent handled before the loop turns again.
GameLiveFrame(s) ==
    /\ app = "game" /\ InMainLoop(s) /\ HasFrame(s)
    /\ rcvd' = [rcvd EXCEPT ![s] = @ + 1]
    /\ LET f == NextFrame(s)
           w == GameWire_from_str(f.text)
           reply == GameTransferReply(world, ident[s], w.val.intent.destination)
       IN  IF f.k \in {"close", "error"}
           THEN /\ pc' = [pc EXCEPT ![s] = "remove"]
                /\ UNCHANGED <<sent, world>>
           ELSE IF f.k # "text" \/ ~w.ok \/ w.val.type # "intent"
           THEN UNCHANGED <<pc, sent, world>>
           ELSE IF w.val.intent.type # "transfer"
           THEN /\ world' = GameApply(world, ident[s], w.val.intent)
                /\ UNCHANGED <<pc, sent>>
           ELSE IF reply.some
           THEN /\ SendOrFail(s, reply.val, "live")
                /\ world' = world
           ELSE UNCHANGED <<pc, sent, world>>
    /\ UNCHANGED <<aside, app, mode, wire, ident, dname, bcast, rxpos, users, messages>>

\* server.rs 197-203: the select! arm of broadcast_rx.recv().
GameLiveBroadcast(s) ==
    /\ app = "game" /\ pc[s] = "live" /\ rxpos[s] > 0 /\ rxpos[s] <= Len(bcast)
    /\ IF Lagged(bcast, rxpos[s], GameBroadcastCap)
       THEN /\ rxpos' = [rxpos EXCEPT ![s] = Len(bcast) - GameBroadcastCap + 1]
            /\ UNCHANGED <<pc, sent>>
       ELSE /\ rxpos' = [rxpos EXCEPT ![s] = @ + 1]
            /\ SendOrFail(s, bcast[rxpos[s]], "live")
    /\ UNCHANGED <<aside, app, mode, wire, rcvd, ident, dname, bcast, users, messages, world>>

\* server.rs 207-214: remove player on disconnect, return Ok.
GameRemovePlayer(s) ==
    /\ app = "game" /\ pc[s] = "remove"
    /\ world' = remove_player(world, ident[s])
    /\ pc' = [pc EXCEPT ![s] = "done"]
    /\ UNCHANGED <<aside, app, mode, wire, rcvd, ident, dname, sent, bcast, rxpos, users, messages>>

\* The ticks of a run.
TickLimit ==
    CASE mode = "duo" -> MaxDuoTick
      [] mode = "ticks" -> MaxLagTick
      [] mode = "import" -> 0
      [] mode = "items" -> MaxItemTick
      [] OTHER -> MaxTick

\* server.rs 56-65: one turn of the tick loop.
Tick ==
    /\ app = "game"
    /\ world.tick < TickLimit
    /\ world' = World_tick(world)
    /\ bcast' = broadcast_send(bcast, World_snapshot(world'))
    /\ UNCHANGED <<aside, app, mode, wire, rcvd, pc, ident, dname, sent, rxpos, users, messages>>

(* ------------------------- forum: server.rs ---------------------------- *)

\* What SystemTime::now() may read.
Clock == {1, 2}

\* ServerState::new of the forum (the port, which nothing reads, left out).
ForumState_new(name) ==
    [name |-> name, threads |-> <<>>, users |-> EmptyMap,
     next_thread_id |-> 1, next_reply_id |-> 1]

\* A forum policy that lets every identity with a profile post.
Forum_apply_import_policy_Known(s, passport) ==
    LET reputation == clamp(passport.reputation, -100, 100)
        can_post == \/ reputation >= 0 \/ passport.post_count > 10
                    \/ passport.identity \in DOMAIN s.users
    IN  [reputation |-> reputation,
         can_post |-> can_post,
         restriction_reason |->
             IF can_post THEN None
             ELSE Some("New users with negative reputation must wait for approval")]

\* A forum policy that lets an identity post from its tenth post on.
Forum_apply_import_policy_TenPosts(s, passport) ==
    LET reputation == clamp(passport.reputation, -100, 100)
        can_post == reputation >= 0 \/ passport.post_count >= 10
    IN  [reputation |-> reputation,
         can_post |-> can_post,
         restriction_reason |->
             IF can_post THEN None
             ELSE Some("New users with negative reputation must wait for approval")]

\* ServerState::apply_import_policy of the forum.
Forum_apply_import_policy(s, passport) ==
    LET reputation == clamp(passport.reputation, -100, 100)
        can_post == reputation >= 0 \/ passport.post_count > 10
    IN  [reputation |-> reputation,
         can_post |-> can_post,
         restriction_reason |->
             IF can_post THEN None
             ELSE Some("New users with negative reputation must wait for approval")]

\* ServerState::get_or_create_user: the state with the profile in it.
get_or_create_user(s, identity, name, now) ==
    IF identity \in DOMAIN s.users THEN s
    ELSE [s EXCEPT !.users = Insert(s.users, identity,
              [identity |-> identity, display_name |-> name,
               post_count |-> 0, reputation |-> 0, joined_at |-> now])]

\* author_name as create_thread and reply_to_thread show it.
AuthorName(author_name) ==
    IF author_name = <<>> THEN <<"Anonymous">> ELSE author_name

\* user.post_count += 1 (a count of posts stays far below the u32 range)
CountPost(s, identity) ==
    [s EXCEPT !.users[identity].post_count = @ + 1]

\* The author names and passports the forum's clients send.
ForumAuthors == {<<>>, <<"a">>}

ForumPassports ==
    {[identity |-> Alice, display_name |-> <<"a">>, home_forum |-> "B",
      reputation |-> r, post_count |-> c] :
        r \in {MinI32, -101, -100, -1, 0, 100, 101, MaxI32},
        c \in {0, 10, 11, MaxI32}}

\* Threads and replies the forum's clients post in a run.
MaxThreads == 2
MaxReplies == 2

\* POST /threads
create_thread ==
    /\ app = "forum"
    /\ forum.next_thread_id <= MaxThreads
    /\ \E author \in ForumAuthors, now \in Clock :
          LET identity == Identity_local(author)
              s1 == CountPost(get_or_create_user(forum, identity,
                                                 AuthorName(author), now),
                              identity)
              thread == [id |-> forum.next_thread_id, title |-> "t",
                         author |-> identity, author_name |-> AuthorName(author),
                         created_at |-> now, reply_count |-> 0,
                         last_activity |-> now]
          IN  /\ forum' = [s1 EXCEPT
                              !.next_thread_id = @ + 1,
                              !.threads = Append(@, [thread |-> thread, body |-> "b",
                                                     replies |-> <<>>])]
              /\ resp' = [status |-> 200, body |-> thread]
    /\ UNCHANGED <<app, mode, wire, rcvd, pc, ident, dname, sent, bcast, rxpos,
                   users, messages, world, lib, sync,
                   blog>>

\* A reply handler that takes the reply id before it looks for the thread.
reply_to_thread_Eager ==
    /\ app = "forum"
    /\ forum.next_reply_id <= MaxReplies
    /\ \E thread_id \in 1..MaxThreads, author \in ForumAuthors, now \in Clock :
          LET at == {i \in 1..Len(forum.threads) :
                         forum.threads[i].thread.id = thread_id}
              i == MinOf(at)
              identity == Identity_local(author)
              reply == [id |-> forum.next_reply_id, thread_id |-> thread_id,
                        author |-> identity, author_name |-> AuthorName(author),
                        body |-> "b", created_at |-> now, parent_id |-> None]
              s1 == [forum EXCEPT
                        !.next_reply_id = @ + 1,
                        !.threads[i].thread.reply_count = @ + 1,
                        !.threads[i].thread.last_activity = now,
                        !.threads[i].replies = Append(@, reply)]
          IN  IF at = {}
              THEN /\ resp' = [status |-> 404, body |-> None]
                   /\ forum' = [forum EXCEPT !.next_reply_id = @ + 1]
              ELSE /\ forum' = CountPost(get_or_create_user(s1, identity,
                                             AuthorName(author), now), identity)
                   /\ resp' = [status |-> 200, body |-> reply]
    /\ UNCHANGED <<app, mode, wire, rcvd, pc, ident, dname, sent, bcast, rxpos,
                   users, messages, world, lib, sync, blog>>

\* POST /threads/{id}/reply
reply_to_thread ==
    /\ app = "forum"
    /\ forum.next_reply_id <= MaxReplies
    /\ \E thread_id \in 1..MaxThreads, author \in ForumAuthors, now \in Clock :
          LET at == {i \in 1..Len(forum.threads) :
                         forum.threads[i].thread.id = thread_id}
              i == MinOf(at)
              identity == Identity_local(author)
              reply == [id |-> forum.next_reply_id, thread_id |-> thread_id,
                        author |-> identity, author_name |-> AuthorName(author),
                        body |-> "b", created_at |-> now, parent_id |-> None]
              s1 == [forum EXCEPT
                        !.next_reply_id = @ + 1,
                        !.threads[i].thread.reply_count = @ + 1,
                        !.threads[i].thread.last_activity = now,
                        !.threads[i].replies = Append(@, reply)]
          IN  IF at = {}
              THEN /\ resp' = [status |-> 404, body |-> None]
                   /\ forum' = forum
              ELSE /\ forum' = CountPost(get_or_create_user(s1, identity,
                                             AuthorName(author), now), identity)
                   /\ resp' = [status |-> 200, body |-> reply]
    /\ UNCHANGED <<app, mode, wire, rcvd, pc, ident, dname, sent, bcast, rxpos,
                   users, messages, world, lib, sync,
                   blog>>

\* POST /import: the policy evaluated under the read lock.
import_user ==
    /\ app = "forum"
    /\ \E passport \in ForumPassports :
          resp' = [status |-> 200,
                   body |-> [passport |-> passport,
                             result |-> Forum_apply_import_policy(forum, passport)]]
    /\ UNCHANGED <<app, mode, wire, rcvd, pc, ident, dname, sent, bcast, rxpos,
                   users, messages, world, forum, lib, sync,
                   blog>>

\* What a forum handler answers with when it panics: the task of the
\* connection is aborted and no response is written.
Aborted(handler) == [status |-> 0, body |-> [aborted |-> handler]]

\* A u32 is written <<high, low>>, its two halves of 16 bits.
HalfWord == 65536
U32Max == <<HalfWord - 1, HalfWord - 1>>

\* server.rs 135 and 167: (page - 1) * per_page in u32 arithmetic, for a
\* per_page of at most 100.  `start` is the value a build without overflow
\* checks goes on with, `wrapped` says that the subtraction or the
\* multiplication left the range of u32: a build with overflow checks
\* panics there.
Offset(page, per_page) ==
    LET under == page = <<0, 0>>
        less == IF under THEN U32Max
                ELSE IF page[2] = 0 THEN <<page[1] - 1, HalfWord - 1>>
                ELSE <<page[1], page[2] - 1>>
        low == less[2] * per_page
        high == less[1] * per_page + (low \div HalfWord)
    IN  [start |-> <<high % HalfWord, low % HalfWord>>,
         wrapped |-> under \/ high >= HalfWord]

\* params.per_page.unwrap_or(default).min(100)
PerPage(per_page, default) ==
    IF ~per_page.some THEN default
    ELSE IF per_page.val[1] > 0 \/ per_page.val[2] > 100 THEN 100
    ELSE per_page.val[2]

\* iter().skip(start as usize).take(per_page as usize), for a sequence
\* shorter than 2^16.
Paged(seq, start, per_page) ==
    LET from == IF start[1] > 0 \/ start[2] > Len(seq) THEN Len(seq) ELSE start[2]
        rest == SubSeq(seq, from + 1, Len(seq))
    IN  SubSeq(rest, 1, IF per_page < Len(rest) THEN per_page ELSE Len(rest))

\* The page and per_page parameters the forum's clients send.
Pages ==
    {None} \cup {Some(p) : p \in {<<0, 0>>, <<0, 2>>, <<32768, 1>>}}

PerPages ==
    {None} \cup {Some(p) : p \in {<<0, 1>>, <<0, 2>>, U32Max}}

\* GET /threads: under the read lock; nothing of the state changes.
list_threads ==
    /\ app = "forum"
    /\ \E page \in Pages, per_page \in PerPages :
          LET pg == IF page.some THEN page.val ELSE <<0, 1>>
              pp == PerPage(per_page, 20)
              off == Offset(pg, pp)
              newest == [i \in 1..Len(forum.threads) |->
                            forum.threads[Len(forum.threads) + 1 - i].thread]
          IN  \/ resp' = [status |-> 200,
                          body |-> [threads |-> Paged(newest, off.start, pp),
                                    total |-> Len(forum.threads),
                                    page |-> pg, per_page |-> pp]]
              \/ /\ off.wrapped
                 /\ resp' = Aborted("list_threads")
    /\ UNCHANGED <<app, mode, wire, rcvd, pc, ident, dname, sent, bcast, rxpos,
                   users, messages, world, forum, lib, sync, blog>>

\* GET /threads/{id}: under the read lock; nothing of the state changes.
get_thread ==
    /\ app = "forum"
    /\ \E id \in 1..MaxThreads, page \in Pages, per_page \in PerPages :
          LET at == {i \in 1..Len(forum.threads) : forum.threads[i].thread.id = id}
              stored == forum.threads[MinOf(at)]
              pg == IF page.some THEN page.val ELSE <<0, 1>>
              pp == PerPage(per_page, 50)
              off == Offset(pg, pp)
          IN  IF at = {}
              THEN resp' = [status |-> 404, body |-> None]
              ELSE \/ resp' = [status |-> 200,
                               body |-> [thread |-> stored.thread,
                                         body |-> stored.body,
                                         replies |-> Paged(stored.replies, off.start, pp),
                                         total_replies |-> Len(stored.replies),
                                         page |-> pg, per_page |-> pp]]
                   \/ /\ off.wrapped
                      /\ resp' = Aborted("get_thread")
    /\ UNCHANGED <<app, mode, wire, rcvd, pc, ident, dname, sent, bcast, rxpos,
                   users, messages, world, forum, lib, sync, blog>>

(* ----------------------- microblog: server.rs -------------------------- *)

\* ServerState::new of the microblog (the port left out).
BlogState_new(name) ==
    [identity |-> Identity_url(<<name, "@localhost">>), name |-> name,
     posts |-> <<>>, following |-> {}, next_id |-> 1]

\* The intents the microblog's clients post to /post.
BlogIntents ==
    {[type |-> "post", text |-> "p"], [type |-> "follow", target |-> Alice]}

\* Posts the microblog's clients make in a run.
MaxPosts == 3

\* POST /post
create_post ==
    /\ app = "microblog"
    /\ blog.next_id <= MaxPosts
    /\ \E intent \in BlogIntents, now \in Clock :
          LET post == [id |-> blog.next_id, author |-> blog.identity,
                       text |-> intent.text, timestamp |-> now]
          IN  IF intent.type # "post"
              THEN /\ resp' = [status |-> 400, body |-> None]
                   /\ blog' = blog
              ELSE /\ blog' = [blog EXCEPT !.next_id = @ + 1,
                                           !.posts = Append(@, post)]
                   /\ resp' = [status |-> 200, body |-> post]
    /\ UNCHANGED <<app, mode, wire, rcvd, pc, ident, dname, sent, bcast, rxpos,
                   users, messages, world, forum, lib, sync>>

(* --------------------- interconnect-core: a caller --------------------- *)

\* Length of the schemes and payloads a caller builds identities from.
MaxIdLen == 2

\* Texts of the characters that matter to the identity format.
IdTexts ==
    UNION {[1..n -> {"a", ":"}] : n \in 0..MaxIdLen}

NothingParsed == [ok |-> FALSE, err |-> "None"]

\* A caller that has called nothing yet: x is the identity it holds, text
\* and parsed the text it formatted or was given and what parsing it gave,
\* flag what is_local answered, data and signature the bytes it handed to a
\* passport constructor and passport what the constructor returned.
LibIdle ==
    [stage |-> "idle", x |-> NoIdentity, text |-> <<>>, parsed |-> NothingParsed,
     flag |-> FALSE, data |-> <<>>, signature |-> None, passport |-> None]

Holds(x) == [LibIdle EXCEPT !.stage = "held", !.x = x]

\* Schemes a caller names beside those of IdTexts: the three of the format's
\* documentation, and "local" with a capital and with a space after it.
SampleSchemes ==
    {SchemeLocal, SchemeUrl, <<"e", "d", "2", "5", "5", "1", "9">>,
     <<"L", "o", "c", "a", "l">>, SchemeLocal \o <<" ">>}

\* Byte strings a caller hands over as passport data or signature: empty,
\* the text "{}", bytes that are no text at all.
ByteStrings == {<<>>, <<123, 125>>, <<255, 0>>}

\* Identity::new(scheme, payload)
LibNew ==
    /\ app = "lib" /\ lib.stage = "idle"
    /\ \E scheme \in IdTexts \cup SampleSchemes, payload \in IdTexts :
          lib' = Holds(Identity_new(scheme, payload))
    /\ UNCHANGED <<app, mode, wire, rcvd, pc, ident, dname, sent, bcast, rxpos,
                   users, messages, world, forum, resp, sync,
                   blog>>

\* Identity::local(name)
LibLocal ==
    /\ app = "lib" /\ lib.stage = "idle"
    /\ \E name \in IdTexts : lib' = Holds(Identity_local(name))
    /\ UNCHANGED <<app, mode, wire, rcvd, pc, ident, dname, sent, bcast, rxpos,
                   users, messages, world, forum, resp, sync,
                   blog>>

\* Identity::url(user_at_server)
LibUrl ==
    /\ app = "lib" /\ lib.stage = "idle"
    /\ \E name \in IdTexts : lib' = Holds(Identity_url(name))
    /\ UNCHANGED <<app, mode, wire, rcvd, pc, ident, dname, sent, bcast, rxpos,
                   users, messages, world, forum, resp, sync,
                   blog>>

\* text.parse::<Identity>() that succeeds
LibFromStr ==
    /\ app = "lib" /\ lib.stage = "idle"
    /\ \E head \in IdTexts, tail \in IdTexts :
          /\ from_str(head \o tail).ok
          /\ lib' = Holds(from_str(head \o tail).val)
    /\ UNCHANGED <<app, mode, wire, rcvd, pc, ident, dname, sent, bcast, rxpos,
                   users, messages, world, forum, resp, sync,
                   blog>>

\* text.parse::<Identity>() of any text, well-formed or not
LibTryParse ==
    /\ app = "lib" /\ lib.stage = "idle"
    /\ \E head \in IdTexts \cup SampleSchemes, tail \in IdTexts :
          lib' = [LibIdle EXCEPT !.stage = "tried", !.text = head \o tail,
                                 !.parsed = from_str(head \o tail)]
    /\ UNCHANGED <<app, mode, wire, rcvd, pc, ident, dname, sent, bcast, rxpos,
                   users, messages, world, forum, resp, sync,
                   blog>>

\* x.is_local()
LibIsLocal ==
    /\ app = "lib" /\ lib.stage = "held"
    /\ lib' = [lib EXCEPT !.stage = "asked", !.flag = is_local(lib.x)]
    /\ UNCHANGED <<app, mode, wire, rcvd, pc, ident, dname, sent, bcast, rxpos,
                   users, messages, world, forum, resp, sync,
                   blog>>

\* Passport::new(x, data)
LibPassportNew ==
    /\ app = "lib" /\ lib.stage = "held"
    /\ \E data \in ByteStrings :
          lib' = [lib EXCEPT !.stage = "made", !.data = data,
                             !.passport = Some(Passport_new(lib.x, data))]
    /\ UNCHANGED <<app, mode, wire, rcvd, pc, ident, dname, sent, bcast, rxpos,
                   users, messages, world, forum, resp, sync,
                   blog>>

\* Passport::signed(x, data, signature)
LibPassportSigned ==
    /\ app = "lib" /\ lib.stage = "held"
    /\ \E data \in ByteStrings, signature \in ByteStrings :
          lib' = [lib EXCEPT !.stage = "made", !.data = data,
                             !.signature = Some(signature),
                             !.passport = Some(Passport_signed(lib.x, data, signature))]
    /\ UNCHANGED <<app, mode, wire, rcvd, pc, ident, dname, sent, bcast, rxpos,
                   users, messages, world, forum, resp, sync,
                   blog>>

\* x.to_string()
LibFormat ==
    /\ app = "lib" /\ lib.stage = "held"
    /\ lib' = [lib EXCEPT !.stage = "text", !.text = Display(lib.x)]
    /\ UNCHANGED <<app, mode, wire, rcvd, pc, ident, dname, sent, bcast, rxpos,
                   users, messages, world, forum, resp, sync,
                   blog>>

\* text.parse::<Identity>() of the formatted text
LibParse ==
    /\ app = "lib" /\ lib.stage = "text"
    /\ lib' = [lib EXCEPT !.stage = "parsed", !.parsed = from_str(lib.text)]
    /\ UNCHANGED <<app, mode, wire, rcvd, pc, ident, dname, sent, bcast, rxpos,
                   users, messages, world, forum, resp, sync,
                   blog>>

(* ------------------- the lock around the shared state ------------------ *)

\* Messages a connection takes that its client has not read yet: a
\* sink.send() beyond them stays pending until the client reads.
MaxUnread == 2
\* Frames and broadcasts the main loop of a session of a "lock" run takes.
MaxLockTurns == 2

\* The tasks of the server: one per connection, and the game's tick task.
Tasks == Sessions \cup {"tick"}

\* A stretch of a task's code: the guard it runs under ("read" or "write",
\* "none" outside every guard), whether it awaits sink.send() there, and
\* where the handler stands after it.
Region(kind, sends, next) == [kind |-> kind, sends |-> sends, next |-> next]

\* chat server.rs: the stretches the handler may enter at position p.  In
\* "auth" and "live" the frame read (or the broadcast received) decides:
\* Auth or an error; Message, Transfer, a broadcast to forward, or close.
ChatRegions(p) ==
    CASE p = "auth" -> {Region("none", FALSE, "manifest"),
                        Region("none", FALSE, "failed")}
      [] p = "manifest" -> {Region("read", TRUE, "register")}
      [] p = "register" -> {Region("write", FALSE, "join")}
      [] p = "join" -> {Region("none", FALSE, "snapshot")}
      [] p = "snapshot" -> {Region("read", TRUE, "subscribe")}
      [] p = "subscribe" -> {Region("none", FALSE, "live")}
      [] p = "live" -> {Region("write", FALSE, "live"),
                        Region("read", TRUE, "live"),
                        Region("none", TRUE, "live"),
                        Region("none", FALSE, "unregister")}
      [] p = "unregister" -> {Region("write", FALSE, "leave")}
      [] p = "leave" -> {Region("none", FALSE, "done")}
      [] OTHER -> {}

\* game server.rs: in "auth" an Auth with or without a passport that
\* decodes, or an error; in "live" Move/PickUp/UseItem/Drop, a Transfer to
\* the peer (with or without a player to mint from), a Transfer elsewhere or
\* a snapshot to forward, or close.
GameRegions(p) ==
    CASE p = "auth" -> {Region("write", TRUE, "welcome"),
                        Region("write", FALSE, "welcome"),
                        Region("none", FALSE, "failed")}
      [] p = "welcome" -> {Region("read", TRUE, "subscribe")}
      [] p = "subscribe" -> {Region("none", FALSE, "live")}
      [] p = "live" -> {Region("write", FALSE, "live"),
                        Region("read", TRUE, "live"),
                        Region("read", FALSE, "live"),
                        Region("none", TRUE, "live"),
                        Region("none", FALSE, "remove")}
      [] p = "remove" -> {Region("write", FALSE, "done")}
      [] OTHER -> {}

Regions(p) == IF app = "chat" THEN ChatRegions(p) ELSE GameRegions(p)

\* The positions at which the handler awaits its client or the broadcast
\* channel before it goes on.
Awaits == {"auth", "live"}

\* No task has asked for the lock yet.
SyncIdle ==
    [holders |-> {}, queue |-> <<>>,
     phase |-> [t \in Tasks |-> "run"],
     want |-> [t \in Tasks |-> Region("none", FALSE, "auth")],
     unread |-> [s \in Sessions |-> 0],
     turns |-> [s \in Sessions |-> 0]]

\* tokio::sync::RwLock grants in the order of the requests: the oldest
\* request is granted once no guard that excludes it is alive.
Compatible(kind) ==
    IF kind = "write" THEN sync.holders = {}
    ELSE \A h \in sync.holders : h[2] = "read"

\* The task enters region r: state.read().await / state.write().await puts
\* it in the queue of the lock; a stretch outside every guard just runs.
Enter(t, r) ==
    [sync EXCEPT !.want[t] = r,
                 !.phase[t] = IF r.kind = "none" THEN "body" ELSE "wait",
                 !.queue = IF r.kind = "none" THEN @ ELSE Append(@, <<t, r.kind>>)]

\* The guard of t (if it has one) is dropped and the task goes on.
Left(t) ==
    [sync EXCEPT !.phase[t] = "run",
                 !.holders = {h \in @ : h[1] # t}]

\* The handler goes on by itself into the one stretch that follows.
LkEnter(s) ==
    /\ mode = "lock" /\ sync.phase[s] = "run"
    /\ pc[s] \notin Awaits
    /\ \E r \in Regions(pc[s]) : sync' = Enter(s, r)
    /\ UNCHANGED <<app, mode, wire, rcvd, pc, ident, dname, sent, bcast, rxpos,
                   users, messages, world, forum, resp, lib,
                   blog>>

\* stream.next() or broadcast_rx.recv() yields, and the handler goes into
\* the stretch that handles what it got.
LkFrame(s) ==
    /\ mode = "lock" /\ sync.phase[s] = "run"
    /\ pc[s] \in Awaits
    /\ pc[s] = "live" => sync.turns[s] < MaxLockTurns
    /\ \E r \in Regions(pc[s]) :
          sync' = [Enter(s, r) EXCEPT
                      !.turns[s] = IF pc[s] = "live" THEN @ + 1 ELSE @]
    /\ UNCHANGED <<app, mode, wire, rcvd, pc, ident, dname, sent, bcast, rxpos,
                   users, messages, world, forum, resp, lib,
                   blog>>

\* game server.rs 58-60: interval.tick() fires and the tick task asks for
\* the write guard.
LkTickWake ==
    /\ mode = "lock" /\ app = "game" /\ sync.phase["tick"] = "run"
    /\ sync' = Enter("tick", Region("write", FALSE, "tick"))
    /\ UNCHANGED <<app, mode, wire, rcvd, pc, ident, dname, sent, bcast, rxpos,
                   users, messages, world, forum, resp, lib,
                   blog>>

\* The lock grants the oldest request.
LkGrant(t) ==
    /\ mode = "lock" /\ sync.phase[t] = "wait"
    /\ sync.queue # <<>>
    /\ Head(sync.queue)[1] = t
    /\ Compatible(Head(sync.queue)[2])
    /\ sync' = [sync EXCEPT !.queue = Tail(@),
                            !.holders = @ \cup {Head(sync.queue)},
                            !.phase[t] = "body"]
    /\ UNCHANGED <<app, mode, wire, rcvd, pc, ident, dname, sent, bcast, rxpos,
                   users, messages, world, forum, resp, lib,
                   blog>>

\* The stretch runs to its end: a sink.send().await in it completes once
\* the connection takes the message, and the guard is dropped at the end of
\* the block.
LkLeave(t) ==
    /\ mode = "lock" /\ sync.phase[t] = "body"
    /\ IF t \in Sessions
       THEN /\ sync.want[t].sends => sync.unread[t] < MaxUnread
            /\ sync' = [Left(t) EXCEPT
                           !.unread[t] = IF sync.want[t].sends THEN @ + 1 ELSE @]
            /\ pc' = [pc EXCEPT ![t] = sync.want[t].next]
       ELSE /\ sync' = Left(t)
            /\ pc' = pc
    /\ UNCHANGED <<app, mode, wire, rcvd, ident, dname, sent, bcast, rxpos,
                   users, messages, world, forum, resp, lib,
                   blog>>

\* sink.send().await? returns Err (the connection broke): the handler
\* returns at once, which drops its guard.
LkSendFails(s) ==
    /\ mode = "lock" /\ sync.phase[s] = "body" /\ sync.want[s].sends
    /\ sync' = Left(s)
    /\ pc' = [pc EXCEPT ![s] = "failed"]
    /\ UNCHANGED <<app, mode, wire, rcvd, ident, dname, sent, bcast, rxpos,
                   users, messages, world, forum, resp, lib,
                   blog>>

\* The client reads a message written to it.
LkClientRead(s) ==
    /\ mode = "lock" /\ sync.unread[s] > 0
    /\ sync' = [sync EXCEPT !.unread[s] = @ - 1]
    /\ UNCHANGED <<app, mode, wire, rcvd, pc, ident, dname, sent, bcast, rxpos,
                   users, messages, world, forum, resp, lib,
                   blog>>

(* ------------------------------ clients -------------------------------- *)

ClientFrames(s, k) ==
    IF app = "chat" THEN ChatClientFrames(s, k) ELSE GameClientFrames(s, k)

\* The client of connection s writes one more frame, unless it has closed.
\* A solo run has one client; in a duo run the first client writes as many
\* frames as a solo client and the second fewer.
FrameLimit(s) ==
    IF mode = "lock" THEN 0
    ELSE IF mode = "items" THEN MaxItemFrames
    ELSE IF mode = "log"
    THEN IF s = "s1" THEN MaxLogFrames ELSE MaxLogFrames - 1
    ELSE IF mode = "trip" THEN IF s = "s1" THEN MaxTripFrames ELSE 0
    ELSE IF mode \in {"import", "ticks"}
    THEN IF s = "s1" THEN MaxImportFrames
         ELSE IF mode = "import" THEN MaxReplayFrames ELSE 0
    ELSE IF s = "s1" THEN MaxFrames
    ELSE IF mode = "duo" THEN MaxDuoFrames ELSE 0

ClientSend(s) ==
    /\ Len(wire[s]) < FrameLimit(s)
    /\ pc[s] \notin Returned
    /\ IF wire[s] = <<>> THEN TRUE
       ELSE wire[s][Len(wire[s])].k \notin {"close", "error"}
    /\ app \in {"chat", "game"}
    /\ \E f \in ClientFrames(s, Len(wire[s]) + 1) :
          wire' = [wire EXCEPT ![s] = Append(@, f)]
    /\ UNCHANGED <<aside, app, mode, rcvd, pc, ident, dname, sent, bcast, rxpos, users, messages, world>>

(* --------------------------- specification ----------------------------- *)

ZoneNames == {"Forest", "Cave"}

\* No connection accepted, no request handled, no identity built yet.
Fresh ==
    /\ wire = [s \in Sessions |-> <<>>]
    /\ rcvd = [s \in Sessions |-> 0]
    /\ pc = [s \in Sessions |-> "auth"]
    /\ ident = [s \in Sessions |-> NoIdentity]
    /\ dname = [s \in Sessions |-> <<>>]
    /\ sent = [s \in Sessions |-> <<>>]
    /\ bcast = <<>>
    /\ rxpos = [s \in Sessions |-> 0]
    /\ users = EmptyMap
    /\ messages = <<>>
    /\ forum = ForumState_new(ServerName)
    /\ resp = [status |-> 0, body |-> None]
    /\ lib = LibIdle
    /\ sync = SyncIdle
    /\ blog = BlogState_new(ServerName)

InitIn(m) ==
    /\ app \in {"chat", "game"}
    /\ mode = m
    /\ Fresh
    /\ world \in IF app = "game" /\ m = "solo"
                 THEN {World_new(n) : n \in ZoneNames}
                 ELSE {World_new("Forest")}

Init == InitIn("solo")

InitDuo == InitIn("duo")

Next ==
    \/ Tick
    \/ \E s \in Sessions :
        \/ ClientSend(s)
        \/ ChatWaitAuth(s)
        \/ ChatSendManifest(s)
        \/ ChatRegister(s)
        \/ ChatBroadcastJoin(s)
        \/ ChatSendSnapshot(s)
        \/ Subscribe(s)
        \/ ChatLiveFrame(s)
        \/ ChatLiveBroadcast(s)
        \/ ChatUnregisterUser(s)
        \/ ChatBroadcastLeave(s)
        \/ GameWaitAuth(s)
        \/ GameSendWelcome(s)
        \/ GameLiveFrame(s)
        \/ GameLiveBroadcast(s)
        \/ GameRemovePlayer(s)

\* One client that may write any frame.
Spec == Init /\ [][Next]_vars

\* Two clients racing each other.
SpecDuo == InitDuo /\ [][Next]_vars

\* One client that may write any frame, to a server with a peer or with
\* none.
InitPeers ==
    /\ app \in {"chat", "game"}
    /\ mode \in {"solo", "nopeer"}
    /\ Fresh
    /\ world = World_new("Forest")

SpecPeers == InitPeers /\ [][Next]_vars

\* What the task of connection s does by itself once it can go on.
HandlerStep(s) ==
    \/ ChatWaitAuth(s)
    \/ ChatSendManifest(s)
    \/ ChatRegister(s)
    \/ ChatBroadcastJoin(s)
    \/ ChatSendSnapshot(s)
    \/ Subscribe(s)
    \/ ChatLiveFrame(s)
    \/ ChatLiveBroadcast(s)
    \/ ChatUnregisterUser(s)
    \/ ChatBroadcastLeave(s)
    \/ GameWaitAuth(s)
    \/ GameSendWelcome(s)
    \/ GameLiveFrame(s)
    \/ GameLiveBroadcast(s)
    \/ GameRemovePlayer(s)

\* One client that writes the frames of a normal session, and a runtime
\* that polls every task that can go on (a handler whose frame has arrived,
\* the tick task); nothing makes the client write.
InitFair == InitIn("lone")

SpecFair ==
    /\ InitFair /\ [][Next]_vars
    /\ WF_vars(Tick)
    /\ \A s \in Sessions : WF_vars(HandlerStep(s))

\* A game zone that admits passports of every kind and ticks past the
\* capacity of its tick channel, or a forum.
InitImport ==
    /\ app \in {"game", "forum"}
    /\ mode \in IF app = "game" THEN {"import", "ticks"} ELSE {"import"}
    /\ Fresh
    /\ world \in IF app = "game" /\ mode = "import"
                 THEN {World_new(n) : n \in ZoneNames}
                 ELSE {World_new("Forest")}

NextImport ==
    \/ Tick
    \/ create_thread
    \/ reply_to_thread
    \/ import_user
    \/ \E s \in Sessions :
        \/ ClientSend(s)
        \/ GameWaitAuth(s)
        \/ GameSendWelcome(s)
        \/ Subscribe(s)
        \/ GameLiveFrame(s)
        \/ GameLiveBroadcast(s)
        \/ GameRemovePlayer(s)

SpecImport == InitImport /\ [][NextImport]_vars

\* A game zone with two clients that authenticate and then move, pick up
\* and drop: both can stand on the same item and ask for it.
InitItems ==
    /\ app = "game"
    /\ mode = "items"
    /\ Fresh
    /\ world = World_new("Forest")

NextItems ==
    \/ Tick
    \/ \E s \in Sessions :
        \/ ClientSend(s)
        \/ GameWaitAuth(s)
        \/ GameSendWelcome(s)
        \/ Subscribe(s)
        \/ GameLiveFrame(s)
        \/ GameLiveBroadcast(s)
        \/ GameRemovePlayer(s)

SpecItems == InitItems /\ [][NextItems]_vars

\* A game zone with one client that arrives fresh or with a passport of a
\* zone with other health limits, plays, and asks to be transferred on.
InitTrip ==
    /\ app = "game"
    /\ mode = "trip"
    /\ Fresh
    /\ world \in {World_new(n) : n \in ZoneNames}

SpecTrip == InitTrip /\ [][NextItems]_vars

\* The log that n messages of sessions that have left make, when none was
\* evicted yet.
Backlog(n) == [i \in 1..n |-> [from |-> <<"o">>, text |-> <<"old", i>>]]

\* Lengths of the log around the sizes at which a snapshot stops showing
\* all of it and at which the log starts to drop messages.
BacklogLens == {0, ChatSnapshotLen - 1, ChatLogCap - 1}

\* A chat server that earlier sessions left with a log, and two clients
\* that authenticate and post.
InitLog ==
    /\ app = "chat"
    /\ mode = "log"
    /\ wire = [s \in Sessions |-> <<>>]
    /\ rcvd = [s \in Sessions |-> 0]
    /\ pc = [s \in Sessions |-> "auth"]
    /\ ident = [s \in Sessions |-> NoIdentity]
    /\ dname = [s \in Sessions |-> <<>>]
    /\ sent = [s \in Sessions |-> <<>>]
    /\ bcast = <<>>
    /\ rxpos = [s \in Sessions |-> 0]
    /\ users = EmptyMap
    /\ messages \in {Backlog(n) : n \in BacklogLens}
    /\ world = World_new("Forest")
    /\ forum = ForumState_new(ServerName)
    /\ resp = [status |-> 0, body |-> None]
    /\ lib = LibIdle
    /\ sync = SyncIdle
    /\ blog = BlogState_new(ServerName)

NextLog ==
    \E s \in Sessions :
        \/ ClientSend(s)
        \/ ChatWaitAuth(s)
        \/ ChatSendManifest(s)
        \/ ChatRegister(s)
        \/ ChatBroadcastJoin(s)
        \/ ChatSendSnapshot(s)
        \/ Subscribe(s)
        \/ ChatLiveFrame(s)
        \/ ChatLiveBroadcast(s)
        \/ ChatUnregisterUser(s)
        \/ ChatBroadcastLeave(s)

SpecLog == InitLog /\ [][NextLog]_vars

\* A forum or a microblog, with clients that post at any time.  Each
\* handler runs from its state.read() or state.write() to its return
\* without another await, so its body is one step.
InitHttp ==
    /\ app \in {"forum", "microblog"}
    /\ mode = "solo"
    /\ Fresh
    /\ world = World_new("Forest")

NextHttp ==
    \/ create_thread
    \/ reply_to_thread
    \/ create_post

SpecHttp == InitHttp /\ [][NextHttp]_vars

\* A forum with clients that post and that read pages of the threads and of
\* their replies.
InitPages ==
    /\ app = "forum"
    /\ mode = "solo"
    /\ Fresh
    /\ world = World_new("Forest")

NextPages ==
    \/ create_thread
    \/ reply_to_thread
    \/ list_threads
    \/ get_thread

SpecPages == InitPages /\ [][NextPages]_vars

\* A caller of the identity type.
InitIdentity ==
    /\ app = "lib"
    /\ mode = "solo"
    /\ Fresh
    /\ world = World_new("Forest")

NextIdentity ==
    \/ LibNew
    \/ LibLocal
    \/ LibUrl
    \/ LibFromStr
    \/ LibTryParse
    \/ LibIsLocal
    \/ LibPassportNew
    \/ LibPassportSigned
    \/ LibFormat
    \/ LibParse

SpecIdentity == InitIdentity /\ [][NextIdentity]_vars

\* The tasks of a chat or game server and the lock they share.
InitLock ==
    /\ app \in {"chat", "game"}
    /\ mode = "lock"
    /\ Fresh
    /\ world = World_new("Forest")

NextLock ==
    \/ LkTickWake
    \/ \E t \in Tasks : LkGrant(t) \/ LkLeave(t)
    \/ \E s \in Sessions :
        \/ LkEnter(s)
        \/ LkFrame(s)
        \/ LkSendFails(s)
        \/ LkClientRead(s)

\* The runtime polls every task that can go on and the lock serves its
\* queue; nothing makes a client write or read.
SpecLock ==
    /\ InitLock /\ [][NextLock]_vars
    /\ WF_vars(LkTickWake)
    /\ \A t \in Tasks : WF_vars(LkGrant(t)) /\ WF_vars(LkLeave(t))
    /\ \A s \in Sessions : WF_vars(LkEnter(s))


(* ------------------------- reading a behaviour ------------------------- *)

\* The message a text frame parses to on the running server.
Parsed(f) ==
    IF app = "chat" THEN ChatWire_from_str(f.text) ELSE GameWire_from_str(f.text)

IsAuthFrame(f) == f.k = "text" /\ Parsed(f).ok /\ Parsed(f).val.type = "auth"

IsIntentFrame(f) == f.k = "text" /\ Parsed(f).ok /\ Parsed(f).val.type = "intent"

\* A well-formed message that is no Auth.
IsOtherMessage(f) == f.k = "text" /\ Parsed(f).ok /\ Parsed(f).val.type # "auth"

IsTransferFrame(f) == IsIntentFrame(f) /\ Parsed(f).val.intent.type = "transfer"

\* The handler of s reads a frame in this step; Read(s) is that frame.
Reads(s) == rcvd'[s] = rcvd[s] + 1
Read(s) == wire[s][rcvd[s] + 1]

Authenticated(s) == ident[s] # NoIdentity

\* The positions of the messages of the given types among those sent to s.
SentAt(s, types) == {i \in 1..Len(sent[s]) : sent[s][i].type \in types}

\* The registry of the running server: identities with a user / player.
Registered == IF app = "chat" THEN DOMAIN users ELSE DOMAIN world.players

\* The position of the Auth the handler of s accepted: the first on the wire.
AuthAt(s) == MinOf({i \in 1..Len(wire[s]) : IsAuthFrame(wire[s][i])})

(* ------------------------------- C1 ------------------------------------ *)

PassportNames(bytes, id, name) ==
    IF app = "chat"
    THEN /\ ChatPassport_from_bytes(bytes).some
         /\ ChatPassport_from_bytes(bytes).val.name = name
    ELSE /\ GamePassport_from_bytes(bytes).some
         /\ GamePassport_from_bytes(bytes).val.identity = id

\* In this step the handler of s writes exactly one message, a Transfer to
\* `dest` whose passport names the session.
WritesTransfer(s, dest) ==
    /\ Len(sent'[s]) = Len(sent[s]) + 1
    /\ SubSeq(sent'[s], 1, Len(sent[s])) = sent[s]
    /\ LET m == sent'[s][Len(sent'[s])] IN
       /\ m.type = "transfer"
       /\ m.destination = dest
       /\ PassportNames(m.passport, ident[s], dname[s])

C3_Original ==
    [][\A s \in Sessions :
        (SentAt(s, {"transfer"}) # {} /\ Reads(s) /\ IsIntentFrame(Read(s)))
            => UNCHANGED <<messages, world>>
    ]_vars


(* ------------------------------- C4 ------------------------------------ *)

\* C4: in the chat server a session that ends because the client closed the
\* transport or the receive failed (also after a Transfer was sent to it)
\* leaves the main loop for the unregister block, which removes its identity
\* from the users registry, and the handler returns Ok only after that block.
C4_UnregisteredOnClose ==
    [][\A s \in Sessions :
        app = "chat" =>
            /\ (pc[s] = "live" /\ Reads(s) /\ Read(s).k \in {"close", "error"})
                  => pc'[s] = "unregister"
            /\ (pc[s] = "unregister" /\ pc'[s] # "unregister")
                  => (ident[s] \notin DOMAIN users' /\ pc'[s] = "leave")
            /\ (pc[s] # "done" /\ pc'[s] = "done") => pc[s] = "leave"
    ]_vars

\* A session that the client closed after a Transfer was sent to it, ended
\* with its identity out of the registry.
C4_Witness ==
    \E s \in Sessions :
        /\ app = "chat" /\ pc[s] = "done"
        /\ SentAt(s, {"transfer"}) # {}
        /\ ident[s] \notin DOMAIN users

(* ------------------------------- C5 ------------------------------------ *)

\* C5 as stated: after the handler of an authenticated session has returned
\* because a write failed, the session's identity is in the registry no
\* longer (unless another session authenticated with the same identity).
C5_Original ==
    \A s \in Sessions :
        (/\ pc[s] = "failed" /\ Authenticated(s)
         /\ \A t \in Sessions \ {s} : ident[t] # ident[s])
            => ident[s] \notin Registered

(* ------------------------------- C6 ------------------------------------ *)

\* The Message / Move intents among the frames the handler of s has read
\* since the Auth it accepted.
ReadSinceAuth(s, type) ==
    IF ~Authenticated(s) THEN <<>>
    ELSE SelectSeq(SubSeq(wire[s], AuthAt(s) + 1, rcvd[s]),
                   LAMBDA f : IsIntentFrame(f) /\ Parsed(f).val.intent.type = type)

\* The entries of the chat log that carry a text written by the client of s.
LogOf(s) == SelectSeq(messages, LAMBDA m : m.text[1] = s)

Synced(s) ==
    IF app = "chat" THEN SentAt(s, {"snapshot"}) # {}
    ELSE SentAt(s, {"welcome"}) # {}

C7_FifoPerSession ==
    \A s \in Sessions :
        LET got == LogOf(s)
            want == ReadSinceAuth(s, "message")
            texts == [i \in 1..Len(want) |-> Parsed(want[i]).val.intent.text]
        IN  /\ \A i \in 1..Len(got) : got[i].from = dname[s]
            /\ [i \in 1..Len(got) |-> got[i].text]
                   = IF Len(messages) < ChatLogCap THEN texts
                     ELSE LastN(texts, Len(got))

\* Two messages of one sender in the log, with one of another sender's.
C7_Witness ==
    /\ Len(LogOf("s1")) = 2
    /\ Len(LogOf("s2")) = 1
    /\ messages[2].text[1] = "s2"

(* ------------------------------- C8 ------------------------------------ *)

\* The handler is past the point where it sends the Manifest / Welcome.
ManifestDone == {"register", "join", "snapshot", "subscribe", "live",
                 "unregister", "leave", "remove", "done"}

\* C8: a session is sent the Manifest (chat) or Welcome (game) at most once,
\* exactly once when its handler is past that send, before any Snapshot, and
\* neither Manifest nor Snapshot before its Auth is accepted.
C8_ManifestOnceFirst ==
    \A s \in Sessions :
        LET man == SentAt(s, {"manifest", "welcome"})
            snap == SentAt(s, {"snapshot"})
        IN  /\ Cardinality(man) <= 1
            /\ pc[s] \in ManifestDone => Cardinality(man) = 1
            /\ \A i \in snap : \E j \in man : j < i
            /\ (man \cup snap # {}) => Authenticated(s)

\* A session that was sent its Manifest / Welcome and then two Snapshots.
C8_Witness ==
    \E s \in Sessions :
        /\ Cardinality(SentAt(s, {"manifest", "welcome"})) = 1
        /\ Cardinality(SentAt(s, {"snapshot"})) >= 2

(* ------------------------------- C9 ------------------------------------ *)

\* An Auth whose passport is present and is no JSON document.
IsGarbageAuth(f) ==
    /\ IsAuthFrame(f)
    /\ Parsed(f).val.passport.some
    /\ ~Parsed(f).val.passport.val.json

\* C9: an Auth whose passport bytes do not decode is accepted, and admits
\* the bearer as a new identity: in the game a player at the origin with
\* health 100 of 100 and an empty inventory under the Auth's identity and
\* name, in chat the display name that is the identity's payload; nothing is
\* written to the client in that step.
C9_UndecodablePassport ==
    [][\A s \in Sessions :
        (pc[s] = "auth" /\ Reads(s) /\ IsGarbageAuth(Read(s))) =>
            LET auth == Parsed(Read(s)).val IN
            /\ ident'[s] = auth.identity
            /\ sent'[s] = sent[s]
            /\ IF app = "chat"
               THEN pc'[s] = "manifest" /\ dname'[s] = auth.identity.payload
               ELSE /\ pc'[s] = "welcome"
                    /\ auth.identity \in DOMAIN world'.players
                    /\ world'.players[auth.identity]
                         = [identity |-> auth.identity, name |-> auth.name,
                            x |-> 0, y |-> 0, health |-> 100, max_health |-> 100,
                            inventory |-> <<>>]
    ]_vars

\* A session that presented undecodable passport bytes and went Live.
C9_Witness ==
    \E s \in Sessions :
        /\ Authenticated(s) /\ pc[s] = "live"
        /\ IsGarbageAuth(wire[s][AuthAt(s)])

(* ------------------------------- C10 ----------------------------------- *)

\* C10 as stated: over the life of a session the server mints at most one
\* passport and sends at most one Transfer.
C10_Original ==
    \A s \in Sessions : Cardinality(SentAt(s, {"transfer"})) <= 1


(* ------------------------------- C11 ----------------------------------- *)

\* The passport bytes of the Auth that the handler of t accepted, and
\* whether the zone admitted a player from them (it wrote the ImportReport).
AuthPassport(t) == Parsed(wire[t][AuthAt(t)]).val.passport

AdmittedFrom(t, bytes) ==
    /\ Authenticated(t)
    /\ AuthPassport(t) = Some(bytes)
    /\ SentAt(t, {"import_report"}) # {}

\* C11 as stated: once the zone has admitted a player from given passport
\* bytes, an Auth on another session that presents the same bytes does not
\* admit a player with the passport's health and inventory again.
C11_Original ==
    [][\A s \in Sessions :
        (/\ pc[s] = "auth" /\ Reads(s) /\ IsAuthFrame(Read(s))
         /\ Parsed(Read(s)).val.passport.some
         /\ \E t \in Sessions \ {s} :
                AdmittedFrom(t, Parsed(Read(s)).val.passport.val))
            => LET p == GamePassport_from_bytes(Parsed(Read(s)).val.passport.val).val
               IN  ~(/\ pc'[s] = "welcome"
                     /\ p.identity \in DOMAIN world'.players
                     /\ world'.players[p.identity]
                          = Player_from_passport(p, apply_import_policy(world, p)))
    ]_vars

(* ------------------------------- C12 ----------------------------------- *)

\* C12 as stated: whatever happens to the other sessions, a session that is
\* in its main loop keeps its entry in the users / players registry (in chat
\* under its display name).
C12_Original ==
    \A s \in Sessions :
        pc[s] = "live" =>
            /\ ident[s] \in Registered
            /\ app = "chat" => users[ident[s]] = dname[s]


(* ------------------------------- C13 ----------------------------------- *)

\* The ticks of the Snapshots sent to s, in the order sent.
SnapshotTicks(s) ==
    LET snaps == SelectSeq(sent[s], LAMBDA m : m.type = "snapshot")
    IN  [i \in 1..Len(snaps) |-> snaps[i].tick]

\* C13: the tick numbers of the Snapshots a game session is sent are
\* strictly increasing in the order sent; ticks may be skipped.
C13_SnapshotsMonotonic ==
    \A s \in Sessions :
        app = "game" =>
            \A i \in 1..Len(SnapshotTicks(s)) - 1 :
                SnapshotTicks(s)[i] < SnapshotTicks(s)[i + 1]

\* A session whose receiver lagged behind the tick channel: two Snapshots
\* sent one after the other, with ticks skipped between them.
C13_Witness ==
    \E s \in Sessions :
        /\ app = "game"
        /\ \E i \in 1..Len(SnapshotTicks(s)) - 1 :
              SnapshotTicks(s)[i] + 1 < SnapshotTicks(s)[i + 1]


(* ------------------------------- C14 ----------------------------------- *)

\* The elements of seq at the positions in I, in order.
Sub(seq, I) ==
    LET F[k \in 0..Len(seq)] ==
            IF k = 0 THEN <<>>
            ELSE IF k \in I THEN Append(F[k - 1], seq[k]) ELSE F[k - 1]
    IN  F[Len(seq)]

\* The handler of s reads an Auth whose passport decodes; Imported(s) is
\* that passport.
ReadsPassport(s) ==
    /\ app = "game" /\ pc[s] = "auth" /\ Reads(s) /\ IsAuthFrame(Read(s))
    /\ Parsed(Read(s)).val.passport.some
    /\ GamePassport_from_bytes(Parsed(Read(s)).val.passport.val).some

Imported(s) == GamePassport_from_bytes(Parsed(Read(s)).val.passport.val).val

\* The import result r splits the inventory of passport p in zone w: the
\* weapons go to rejected_items, each with `reason`, when the zone allows no
\* weapons, everything else to accepted_items, both in the original order.
Partitions(w, p, r, reason) ==
    LET n == Len(p.inventory)
        refused == IF w.allow_weapons THEN {}
                   ELSE {i \in 1..n : p.inventory[i].kind = "Sword"}
    IN  /\ r.accepted_items = Sub(p.inventory, (1..n) \ refused)
        /\ Len(r.rejected_items) = Cardinality(refused)
        /\ [k \in 1..Len(r.rejected_items) |-> r.rejected_items[k][1]]
               = Sub(p.inventory, refused)
        /\ \A k \in 1..Len(r.rejected_items) : r.rejected_items[k][2] = reason

\* The player the zone admits in this step for passport p has inventory inv.
AdmitsWith(s, p, inv) ==
    pc'[s] = "welcome" =>
        /\ p.identity \in DOMAIN world'.players
        /\ world'.players[p.identity].inventory = inv

\* C14 as stated: the import policy partitions the passport's inventory,
\* rejecting the weapons of a zone without weapons with the reason
\* "weapons not allowed", and the admitted player holds the accepted items.
C14_Original ==
    [][\A s \in Sessions :
        ReadsPassport(s) =>
            LET r == apply_import_policy(world, Imported(s)) IN
            /\ Partitions(world, Imported(s), r, "weapons not allowed")
            /\ AdmitsWith(s, Imported(s), r.accepted_items)
    ]_vars

\* C14 as amended: the same partition, the reason given for every rejected
\* weapon being the text "Weapons not allowed in this zone".
C14_ImportPartition ==
    [][\A s \in Sessions :
        ReadsPassport(s) =>
            LET r == apply_import_policy(world, Imported(s)) IN
            /\ Partitions(world, Imported(s), r, "Weapons not allowed in this zone")
            /\ AdmitsWith(s, Imported(s), r.accepted_items)
    ]_vars

\* A zone without weapons has admitted the bearer of two swords and a
\* shield, who holds the shield.
C14_Witness ==
    \E s \in Sessions :
        /\ app = "game" /\ ~world.allow_weapons /\ pc[s] = "live"
        /\ Authenticated(s) /\ AuthPassport(s).some
        /\ LET p == GamePassport_from_bytes(AuthPassport(s).val) IN
           /\ p.some
           /\ Len(p.val.inventory) = 3 /\ p.val.inventory[1].kind = "Sword"
           /\ p.val.identity \in DOMAIN world.players
           /\ world.players[p.val.identity].inventory = <<InventoryItem("Shield", 1)>>


(* ------------------------------- C15 ----------------------------------- *)

\* max(1, min(h, 100))
KeptHealth(h) ==
    LET low == IF h < 100 THEN h ELSE 100 IN IF low > 1 THEN low ELSE 1

\* C15: for every transmitted health h the import policy returns
\* max(1, min(h, 100)): a value in 1..100, 1 for 0, 100 for 500, h itself
\* when h is in 1..100; the player admitted from the passport has it.
C15_HealthClamped ==
    [][\A s \in Sessions :
        ReadsPassport(s) =>
            LET h == Imported(s).health
                r == apply_import_policy(world, Imported(s))
            IN  /\ r.health = KeptHealth(h)
                /\ r.health \in 1..100
                /\ h = 0 => r.health = 1
                /\ h = 500 => r.health = 100
                /\ h \in 1..100 => r.health = h
                /\ pc'[s] = "welcome"
                      => world'.players[Imported(s).identity].health = r.health
    ]_vars

\* A player admitted from a passport that transmitted health 0, alive with
\* health 1.
C15_Witness ==
    \E s \in Sessions :
        /\ app = "game" /\ pc[s] = "live"
        /\ Authenticated(s) /\ AuthPassport(s).some
        /\ LET p == GamePassport_from_bytes(AuthPassport(s).val) IN
           /\ p.some /\ p.val.health = 0
           /\ p.val.identity \in DOMAIN world.players
           /\ world.players[p.val.identity].health = 1


(* ------------------------------- C16 ----------------------------------- *)

\* Passports a zone evaluates: those of ImportPassports that decode.
ZonePassports == {p \in ImportPassports : p.health >= 0}

\* The request the forum handled in this step was POST /import.
Imports == app = "forum" /\ resp' # resp /\ "result" \in DOMAIN resp'.body

\* C16: the import policies are functions of the passport alone.  In every
\* reachable state of a server, whatever its players, items, tick, threads
\* and users, the policy gives each passport the result it gives in the
\* state the server started in; what the handlers answer and admit is that
\* result; and evaluating POST /import changes no state of the forum.
C16_PolicyOfPassportAlone ==
    /\ [](/\ app = "game" =>
                \A p \in ZonePassports :
                    apply_import_policy(world, p)
                        = apply_import_policy(World_new(world.name), p)
          /\ app = "forum" =>
                \A p \in ForumPassports :
                    Forum_apply_import_policy(forum, p)
                        = Forum_apply_import_policy(ForumState_new(forum.name), p))
    /\ [][/\ Imports =>
                /\ forum' = forum
                /\ resp'.body.result
                     = Forum_apply_import_policy(ForumState_new(forum.name),
                                                 resp'.body.passport)
          /\ \A s \in Sessions :
                (ReadsPassport(s) /\ pc'[s] = "welcome") =>
                    world' = add_player(world,
                                Player_from_passport(Imported(s),
                                    apply_import_policy(World_new(world.name),
                                                        Imported(s))))
         ]_vars

\* A forum with a thread, a reply and the bearer's profile refuses the
\* bearer of a passport with negative reputation the right to post.
C16_Witness ==
    /\ app = "forum" /\ Alice \in DOMAIN forum.users
    /\ forum.threads # <<>> /\ forum.threads[1].replies # <<>>
    /\ "result" \in DOMAIN resp.body
    /\ resp.body.passport.identity = Alice
    /\ ~resp.body.result.can_post


(* ------------------------------- C17 ----------------------------------- *)

\* The kinds the zone refuses of the passport read in this step, each with
\* the reason, as the ImportReport lists them.
RefusedOf(s) ==
    LET r == apply_import_policy(world, Imported(s)) IN
    [k \in 1..Len(r.rejected_items) |->
        <<r.rejected_items[k][1].kind, r.rejected_items[k][2]>>]

\* In this step the handler of s writes exactly one message, of type `type`.
Writes(s, type) ==
    /\ Len(sent'[s]) = Len(sent[s]) + 1
    /\ SubSeq(sent'[s], 1, Len(sent[s])) = sent[s]
    /\ sent'[s][Len(sent'[s])].type = type

\* C17 as stated: when the import policy refuses items of a passport, the
\* client is sent an Error message and the session goes on with the
\* partially admitted player (unless that write fails).
C17_Original ==
    [][\A s \in Sessions :
        (ReadsPassport(s) /\ RefusedOf(s) # <<>>) =>
            \/ Writes(s, "error") /\ pc'[s] = "welcome"
            \/ pc'[s] = "failed" /\ sent'[s] = sent[s]
    ]_vars

\* C17 as amended: for every passport that decodes, the zone writes one
\* ImportReport, which lists the accepted kinds and the rejected kinds with
\* the reason, and in the same step admits the player with the accepted
\* items and goes on to the Welcome; no Error message is written.  Only if
\* the write of the ImportReport fails does the session end, with no player
\* added.
C17_ImportReported ==
    [][\A s \in Sessions :
        ReadsPassport(s) =>
            LET r == apply_import_policy(world, Imported(s)) IN
            \/ /\ Writes(s, "import_report")
               /\ sent'[s][Len(sent'[s])].rejected = RefusedOf(s)
               /\ sent'[s][Len(sent'[s])].accepted
                      = [k \in 1..Len(r.accepted_items) |-> r.accepted_items[k].kind]
               /\ pc'[s] = "welcome"
               /\ world' = add_player(world, Player_from_passport(Imported(s), r))
            \/ /\ pc'[s] = "failed"
               /\ UNCHANGED <<sent, world, ident>>
    ]_vars

\* A Live session that was told of rejected items before its Welcome and
\* plays with the rest.
C17_Witness ==
    \E s \in Sessions :
        /\ app = "game" /\ pc[s] = "live"
        /\ Len(sent[s]) >= 2
        /\ sent[s][1].type = "import_report" /\ sent[s][1].rejected # <<>>
        /\ sent[s][2].type = "welcome"
        /\ ident[s] \in DOMAIN world.players
        /\ world.players[ident[s]].inventory # <<>>


(* ------------------------------- C18 ----------------------------------- *)

\* C18 as stated: when the handler that waits for Auth reads a text frame
\* that does not parse (not JSON, or an Auth with a malformed identity), it
\* writes a final Error message to the client before it returns, and no
\* user or player is registered.
C18_Original ==
    [][\A s \in Sessions :
        (/\ pc[s] = "auth" /\ Reads(s)
         /\ Read(s).k = "text" /\ ~Parsed(Read(s)).ok)
            => /\ pc'[s] = "failed"
               /\ Writes(s, "error")
               /\ UNCHANGED <<users, world>>
    ]_vars

(* ------------------------------- C19 ----------------------------------- *)

\* A text frame that does not parse, or parses to no Intent.
IsNoIntent(f) ==
    f.k = "text" /\ (~Parsed(f).ok \/ Parsed(f).val.type # "intent")

\* C19: a Live session drops a text frame that does not parse or parses to
\* something other than an Intent: the handler stays in its main loop,
\* writes nothing, and identity, display name, registry, message log, world
\* and broadcast queue are unchanged.
C19_DroppedInLive ==
    [][\A s \in Sessions :
        (pc[s] = "live" /\ Reads(s) /\ IsNoIntent(Read(s)))
            => /\ pc'[s] = "live"
               /\ UNCHANGED <<ident, dname, sent, bcast, users, messages, world>>
    ]_vars

\* A Live session that read a second Auth or an unparsable frame and then
\* an Intent that took effect: a message in the chat log, a player moved.
C19_Witness ==
    \E s \in Sessions :
        /\ pc[s] = "live" /\ rcvd[s] = 3
        /\ IsAuthFrame(wire[s][1])
        /\ IsNoIntent(wire[s][2])
        /\ IsIntentFrame(wire[s][3])
        /\ IF app = "chat" THEN messages # <<>>
           ELSE ident[s] \in DOMAIN world.players
                /\ world.players[ident[s]].x = 5

(* ------------------------------- C20 ----------------------------------- *)

\* C20 as stated: for every identity x with a non-empty scheme, however it
\* was built, parsing the text x formats to succeeds and gives x back.
C20_Original ==
    (lib.stage = "parsed" /\ lib.x.scheme # <<>>)
        => (lib.parsed.ok /\ lib.parsed.val = lib.x)

(* ------------------------------- C21 ----------------------------------- *)

\* The characters of a text.
Chars(s) == {s[i] : i \in 1..Len(s)}

\* C21: parsing is decided by the first ':' of the text.  A text with no ':'
\* fails with MissingColon; a text that starts with ':' fails with
\* EmptyScheme; every other text parses, to a scheme that is non-empty and
\* holds no ':' and a payload such that scheme, ':' and payload make up the
\* text again.
C21_ParsedAtFirstColon ==
    lib.stage = "tried" =>
        LET text == lib.text
            r == lib.parsed
        IN  IF ":" \notin Chars(text)
            THEN ~r.ok /\ r.err = "MissingColon"
            ELSE IF text[1] = ":"
            THEN ~r.ok /\ r.err = "EmptyScheme"
            ELSE /\ r.ok
                 /\ r.val.scheme # <<>>
                 /\ ":" \notin Chars(r.val.scheme)
                 /\ r.val.scheme \o <<":">> \o r.val.payload = text

\* A text with two ':' was parsed: the payload holds the second one.
C21_Witness ==
    /\ lib.stage = "tried"
    /\ lib.text = <<"a", ":", ":", "a">>
    /\ lib.parsed.ok
    /\ lib.parsed.val = Identity_new(<<"a">>, <<":", "a">>)

(* ------------------------------- C22 ----------------------------------- *)

\* C22 as stated: every identity a caller holds, however it was built, has
\* a non-empty scheme.
C22_Original ==
    lib.stage = "held" => lib.x.scheme # <<>>

(* ------------------------------- C23 ----------------------------------- *)

\* C23: is_local answers true exactly when the scheme is the five
\* characters "local": true for local:a, false for the schemes url and
\* ed25519, for "Local", for "local " and for every other scheme.
C23_LocalIffSchemeLocal ==
    lib.stage = "asked" =>
        /\ lib.flag <=> lib.x.scheme = <<"l", "o", "c", "a", "l">>
        /\ lib.x.scheme \in SampleSchemes \ {SchemeLocal} => ~lib.flag
        /\ lib.x.scheme \in IdTexts => ~lib.flag

\* is_local was asked of an identity of scheme "Local" and answered false.
C23_Witness ==
    /\ lib.stage = "asked"
    /\ lib.x.scheme = <<"L", "o", "c", "a", "l">>
    /\ ~lib.flag

(* ------------------------------- C24 ----------------------------------- *)

\* C24: a passport built by Passport::new holds the identity and the data
\* it was given and no signature; one built by Passport::signed holds the
\* identity, the data and the signature it was given; whatever the data is.
C24_PassportAsGiven ==
    lib.stage = "made" =>
        /\ lib.passport.some
        /\ lib.passport.val.identity = lib.x
        /\ lib.passport.val.data = lib.data
        /\ lib.passport.val.signature = lib.signature

\* A signed passport was built from data that is no text.
C24_Witness ==
    /\ lib.stage = "made"
    /\ lib.signature = Some(<<123, 125>>)
    /\ lib.passport.some
    /\ lib.passport.val.data = <<255, 0>>
    /\ lib.passport.val.signature.some

(* ------------------------------- C25 ----------------------------------- *)

\* Task t holds a guard of the lock / waits for one.
Holding(t) == \E h \in sync.holders : h[1] = t
Waiting(t) == sync.phase[t] = "wait"

\* The tasks that run: the handlers that have not returned, and in the game
\* the tick task.
Running ==
    {s \in Sessions : pc[s] \notin Returned}
        \cup IF app = "game" THEN {"tick"} ELSE {}

\* Task t waits for the lock and the lock cannot serve it now.
Blocked(t) ==
    /\ Waiting(t)
    /\ ~(Head(sync.queue)[1] = t /\ Compatible(Head(sync.queue)[2]))

\* C25 as stated: no task asks for the lock while it holds a guard of it;
\* the tasks that run are never all blocked waiting for the lock; and, the
\* tasks being scheduled fairly, every task that waits for the lock gets it.
C25_Original ==
    /\ [](\A t \in Tasks : ~(Waiting(t) /\ Holding(t)))
    /\ [](Running # {} => \E t \in Running : ~Blocked(t))
    /\ \A t \in Tasks : Waiting(t) ~> Holding(t)

(* ------------------------------- C26 ----------------------------------- *)

\* C26 as stated: a connection does not wait for Auth forever: either its
\* client writes an Auth, or the handler gives up and returns an error.
C26_Original ==
    \A s \in Sessions :
        <>(\/ \E i \in 1..Len(wire[s]) : IsAuthFrame(wire[s][i])
           \/ pc[s] = "failed")

(* ------------------------------- C27 ----------------------------------- *)

\* C27: when a Live session reads a transfer request whose destination is
\* not the configured peer (any destination when none is configured), the
\* handler writes exactly one message to the requester, an Error, and stays
\* in its main loop (or that write fails and ends the session); no Transfer
\* is written, and registry, message log, world and broadcast queue are
\* unchanged.
C27_UnknownDestination ==
    [][\A s \in Sessions :
        (/\ pc[s] = "live" /\ Reads(s) /\ IsTransferFrame(Read(s))
         /\ Peer # Some(Parsed(Read(s)).val.intent.destination))
            => /\ \/ Writes(s, "error") /\ pc'[s] = "live"
                  \/ sent'[s] = sent[s] /\ pc'[s] = "failed"
               /\ UNCHANGED <<ident, dname, bcast, users, messages, world>>
    ]_vars

\* A session of a server without a peer asked for a transfer as its second
\* frame, was sent an Error and no Transfer, and is still in its main loop.
C27_Witness ==
    \E s \in Sessions :
        /\ Peer = None
        /\ pc[s] = "live" /\ rcvd[s] >= 2
        /\ IsTransferFrame(wire[s][2])
        /\ SentAt(s, {"error"}) # {}
        /\ SentAt(s, {"transfer"}) = {}

(* ------------------------------- C28 ----------------------------------- *)

\* The handler of s takes a step.
Acts(s) == Reads(s) \/ pc'[s] # pc[s]

\* C28 as stated: in the game, an entry of the players map is inserted,
\* replaced, changed or removed only by a step of a session that
\* authenticated with the identity the entry is keyed by.
C28_Original ==
    [][app = "game" =>
        \A id \in DOMAIN world.players \cup DOMAIN world'.players :
            \/ /\ id \in DOMAIN world.players
               /\ id \in DOMAIN world'.players
               /\ world'.players[id] = world.players[id]
            \/ \E s \in Sessions : Acts(s) /\ ident'[s] = id
    ]_vars

(* ------------------------------- C29 ----------------------------------- *)

\* C29: every entry of the players map is keyed by the identity stored in
\* the player.
C29_KeyedByIdentity ==
    \A id \in DOMAIN world.players : world.players[id].identity = id

\* A player that came in by a passport and has since dropped or used one
\* of the two items it came with.
C29_Witness ==
    /\ app = "game"
    /\ \E s \in Sessions :
          /\ pc[s] = "live"
          /\ ident[s] \in DOMAIN world.players
          /\ world.players[ident[s]].name = PassportAlice.name
          /\ Len(world.players[ident[s]].inventory) = 1

(* ------------------------------- C30 ----------------------------------- *)

\* The message log as the last Snapshot written to s shows it.
LastSnapshotOf(s) ==
    LET at == SentAt(s, {"snapshot"})
        last == CHOOSE i \in at : \A j \in at : j <= i
    IN  sent[s][last].messages

\* C30 as stated: a chat session in its main loop that has forwarded every
\* broadcast queued for it has been shown every message appended since its
\* initial snapshot was read: the last Snapshot written to it shows the
\* message log as it is now.
C30_Original ==
    \A s \in Sessions :
        (/\ app = "chat" /\ pc[s] = "live"
         /\ rxpos[s] = Len(bcast) + 1
         /\ SentAt(s, {"snapshot"}) # {})
            => LastSnapshotOf(s) = LastN(messages, ChatSnapshotLen)

(* ------------------------------- C31 ----------------------------------- *)

\* C31 as stated: no handler awaits sink.send() to its client while it holds
\* a guard of the lock around the shared state: every stretch in which a
\* task sends runs outside every guard.
C31_Original ==
    \A s \in Sessions :
        (sync.phase[s] = "body" /\ sync.want[s].sends) => ~Holding(s)

(* ------------------------------- C32 ----------------------------------- *)

\* How many items of kind k lie in the world, and how many the player of
\* identity id carries.
Lying(k) == Cardinality({i \in 1..Len(world.items) : world.items[i].kind = k})

Carried(id, k) ==
    IF id \notin DOMAIN world.players THEN 0
    ELSE Cardinality({i \in 1..Len(world.players[id].inventory) :
                         world.players[id].inventory[i].kind = k})

\* The handler of s reads a PickUp in this step.
ReadsPickUp(s) ==
    /\ pc[s] = "live" /\ Reads(s)
    /\ IsIntentFrame(Read(s))
    /\ Parsed(Read(s)).val.intent.type = "pick_up"

\* C32: an item lying in the world is picked up at most once.  Of each kind
\* the zone spawned one item, and at any time at most one copy of it exists,
\* lying in the world or carried by a player.  A PickUp either changes
\* nothing, or removes one item with the given id from the world and adds it
\* as the last entry of the inventory of the session's own player, who is
\* registered and stands closer than 2 to the item; every other player is
\* left alone.
C32_PickedUpOnce ==
    /\ [](\A k \in ItemKinds : Lying(k) + Carried(Alice, k) + Carried(Bob, k) <= 1)
    /\ [][\A s \in Sessions : ReadsPickUp(s) =>
            LET id == Parsed(Read(s)).val.intent.item_id
                me == ident[s]
                at == {i \in 1..Len(world.items) : world.items[i].id = id}
            IN  \/ world' = world
                \/ /\ me \in DOMAIN world.players
                   /\ \E i \in at :
                        /\ (world.players[me].x - world.items[i].x)
                               * (world.players[me].x - world.items[i].x)
                           + (world.players[me].y - world.items[i].y)
                               * (world.players[me].y - world.items[i].y) < 4
                        /\ world'.items = RemoveAt(world.items, i)
                        /\ world'.players =
                              [world.players EXCEPT ![me].inventory =
                                  Append(@, InventoryItem(world.items[i].kind, 1))]
       ]_vars

\* Both sessions stood on the potion and asked for it: both PickUps were
\* handled, and one player carries the potion.
C32_Witness ==
    /\ mode = "items"
    /\ \A s \in Sessions :
          /\ rcvd[s] = 3
          /\ IsIntentFrame(wire[s][3])
          /\ Parsed(wire[s][3]).val.intent = [type |-> "pick_up", item_id |-> 1]
          /\ ident[s] \in DOMAIN world.players
          /\ world.players[ident[s]].x = 5 /\ world.players[ident[s]].y = 5
    /\ ident["s1"] # ident["s2"]
    /\ Carried(Alice, "Potion") + Carried(Bob, "Potion") = 1

(* ------------------------------- C33 ----------------------------------- *)

\* C33 as stated: the ids of the items lying in a game world are pairwise
\* distinct, the items created by Drop included.
C33_Original ==
    app = "game" =>
        \A i, j \in 1..Len(world.items) :
            world.items[i].id = world.items[j].id => i = j

(* ------------------------------- C34 ----------------------------------- *)

\* The handler of s reads a UseItem in this step.
ReadsUseItem(s) ==
    /\ pc[s] = "live" /\ Reads(s)
    /\ IsIntentFrame(Read(s))
    /\ Parsed(Read(s)).val.intent.type = "use_item"

\* C34 as stated: every player of a game world has 1 <= health <=
\* max_health, whether created fresh or admitted from a passport, and a
\* UseItem never lowers the health of a player.
C34_Original ==
    /\ [](app = "game" =>
            \A id \in DOMAIN world.players :
                /\ 1 <= world.players[id].health
                /\ world.players[id].health <= world.players[id].max_health)
    /\ [][\A s \in Sessions :
            (ReadsUseItem(s) /\ ident[s] \in DOMAIN world.players) =>
                world'.players[ident[s]].health >= world.players[ident[s]].health
       ]_vars

(* ------------------------------- C35 ----------------------------------- *)

\* The player a zone named Forest (weapons allowed) makes of passport
\* bytes: from_bytes, the import policy, from_passport.
Arrival(bytes) ==
    LET decoded == GamePassport_from_bytes(bytes) IN
    IF decoded.some
    THEN Some(Player_from_passport(
                  decoded.val,
                  apply_import_policy(World_new("Forest"), decoded.val)))
    ELSE None

\* C35: whenever the handler answers a Transfer with the passport minted
\* for the session's player, these bytes decode, and the player a
\* weapons-allowed zone makes of them has the identity, name, max_health and
\* inventory of the original, its health clamped to 1..100, and stands at
\* (0,0).
C35_RoundTrip ==
    [][\A s \in Sessions :
        (/\ pc[s] = "live" /\ Reads(s) /\ IsTransferFrame(Read(s))
         /\ Len(sent'[s]) = Len(sent[s]) + 1
         /\ sent'[s][Len(sent'[s])].type = "transfer") =>
            LET original == world.players[ident[s]]
                arrived == Arrival(sent'[s][Len(sent'[s])].passport)
            IN  /\ arrived.some
                /\ arrived.val.identity = original.identity
                /\ arrived.val.name = original.name
                /\ arrived.val.max_health = original.max_health
                /\ arrived.val.inventory = original.inventory
                /\ arrived.val.health =
                      IF original.health < 1 THEN 1
                      ELSE IF original.health > 100 THEN 100
                      ELSE original.health
                /\ arrived.val.x = 0 /\ arrived.val.y = 0
    ]_vars

\* A player with 115 health who holds a sword and stands at (5,5) was
\* handed the passport for its transfer.
C35_Witness ==
    /\ mode = "trip" /\ rcvd["s1"] = 4
    /\ Alice \in DOMAIN world.players
    /\ world.players[Alice].health = 115
    /\ world.players[Alice].x = 5
    /\ world.players[Alice].inventory = <<InventoryItem("Sword", 1)>>
    /\ sent["s1"] # <<>>
    /\ sent["s1"][Len(sent["s1"])].type = "transfer"
    /\ Arrival(sent["s1"][Len(sent["s1"])].passport).val.health = 100

(* ------------------------------- C36 ----------------------------------- *)

\* The messages the server added for session s, in the order it read them.
Posts(s) ==
    LET read == ReadSinceAuth(s, "message") IN
    [i \in 1..Len(read) |->
        [from |-> dname[s], text |-> Parsed(read[i]).val.intent.text]]

\* Every order in which the messages of two sessions can have arrived.
RECURSIVE Merges(_, _)
Merges(P, Q) ==
    IF P = <<>> THEN {Q}
    ELSE IF Q = <<>> THEN {P}
    ELSE {<<Head(P)>> \o m : m \in Merges(Tail(P), Q)}
             \cup {<<Head(Q)>> \o m : m \in Merges(P, Tail(Q))}

\* The last min(n, length) entries of a log.
Recent(log, n) ==
    LET shown == IF Len(log) < n THEN Len(log) ELSE n IN
    [i \in 1..shown |-> log[Len(log) - shown + i]]

\* C36: the log holds at most 100 messages, and they are the most recently
\* added ones in arrival order: the end of what the earlier sessions left
\* followed by what the two sessions posted.  Every snapshot the server
\* makes, for a client that joins or after a Message, holds the last
\* min(50, log length) messages of the log in that order.
C36_LogAndSnapshots ==
    /\ [](app = "chat" =>
            /\ Len(messages) <= 100
            /\ \E n \in BacklogLens : \E m \in Merges(Posts("s1"), Posts("s2")) :
                  messages = Recent(Backlog(n) \o m, 100))
    /\ [][app = "chat" =>
            /\ Len(bcast') > Len(bcast) /\ bcast'[Len(bcast')].type = "snapshot"
                  => bcast'[Len(bcast')].messages = Recent(messages', 50)
            /\ \A s \in Sessions :
                  (pc[s] = "snapshot" /\ Len(sent'[s]) > Len(sent[s]))
                      => /\ sent'[s][Len(sent'[s])].type = "snapshot"
                         /\ sent'[s][Len(sent'[s])].messages = Recent(messages, 50)
       ]_vars

\* The log is full and has dropped its two oldest messages, and a snapshot
\* made since shows the 50 newest.
C36_Witness ==
    /\ mode = "log"
    /\ Len(messages) = 100
    /\ messages[1].text = <<"old", 3>>
    /\ \E i \in 1..Len(bcast) :
          /\ bcast[i].type = "snapshot"
          /\ Len(bcast[i].messages) = 50
          /\ bcast[i].messages[50] = messages[100]
          /\ bcast[i].messages[1] = messages[51]

(* ------------------------------- C37 ----------------------------------- *)

\* The forum answered an import request last.
ForumImported == app = "forum" /\ resp.status = 200 /\ "result" \in DOMAIN resp.body

\* C37: the forum's import policy returns the passport's reputation brought
\* into -100..100, lets the user post exactly when that reputation is not
\* negative or the passport counts more than 10 posts, and gives a reason
\* exactly when the user may not post.
C37_ForumPolicy ==
    ForumImported =>
        LET passport == resp.body.passport
            result == resp.body.result
            kept == IF passport.reputation < -100 THEN -100
                    ELSE IF passport.reputation > 100 THEN 100
                    ELSE passport.reputation
        IN  /\ result.reputation = kept
            /\ result.can_post <=> (kept >= 0 \/ passport.post_count > 10)
            /\ result.restriction_reason.some <=> ~result.can_post

\* A passport with reputation -1 and exactly 10 posts was refused, with a
\* reason.
C37_Witness ==
    /\ ForumImported
    /\ resp.body.passport.reputation = -1
    /\ resp.body.passport.post_count = 10
    /\ ~resp.body.result.can_post
    /\ resp.body.result.restriction_reason.some

(* ------------------------------- C38 ----------------------------------- *)

\* C38 as stated: list_threads and get_thread compute (page - 1) * per_page
\* within the range of u32 for every page and per_page a client sends,
\* page = 0 and very large pages included: no request makes a handler panic,
\* every page answered is one whose offset did not wrap, and it holds at
\* most min(per_page, 100) entries, threads newest first and replies oldest
\* first.
C38_Original ==
    app = "forum" =>
        /\ "aborted" \notin DOMAIN resp.body
        /\ "threads" \in DOMAIN resp.body =>
              /\ ~Offset(resp.body.page, resp.body.per_page).wrapped
              /\ resp.body.per_page <= 100
              /\ Len(resp.body.threads) <= resp.body.per_page
              /\ \A i, j \in 1..Len(resp.body.threads) :
                    i < j => resp.body.threads[i].id > resp.body.threads[j].id
        /\ "replies" \in DOMAIN resp.body =>
              /\ ~Offset(resp.body.page, resp.body.per_page).wrapped
              /\ resp.body.per_page <= 100
              /\ Len(resp.body.replies) <= resp.body.per_page
              /\ \A i, j \in 1..Len(resp.body.replies) :
                    i < j => resp.body.replies[i].id < resp.body.replies[j].id

(* ------------------------------- C39 ----------------------------------- *)

\* The ids of the threads, of the replies of all threads, and of the
\* microblog's posts that exist.
ThreadIds == {forum.threads[i].thread.id : i \in 1..Len(forum.threads)}

ReplyIds ==
    UNION {{forum.threads[i].replies[j].id : j \in 1..Len(forum.threads[i].replies)} :
              i \in 1..Len(forum.threads)}

PostIds == {blog.posts[i].id : i \in 1..Len(blog.posts)}

\* How many replies exist.
RECURSIVE ReplyCount(_)
ReplyCount(n) ==
    IF n = 0 THEN 0 ELSE ReplyCount(n - 1) + Len(forum.threads[n].replies)

\* C39: the ids the HTTP servers hand out are unique and grow in creation
\* order, however the requests interleave: no two threads, no two replies
\* (of the same or of different threads) and no two posts share an id; an id
\* handed out is larger than every id of its kind handed out before; and a
\* request answered with not-found leaves the state, the next reply id
\* included, as it was.
C39_UniqueIds ==
    /\ [](/\ Cardinality(ThreadIds) = Len(forum.threads)
          /\ Cardinality(ReplyIds) = ReplyCount(Len(forum.threads))
          /\ Cardinality(PostIds) = Len(blog.posts)
          /\ \A i, j \in 1..Len(forum.threads) :
                i < j => forum.threads[i].thread.id < forum.threads[j].thread.id
          /\ \A i, j \in 1..Len(blog.posts) :
                i < j => blog.posts[i].id < blog.posts[j].id)
    /\ [][/\ \A new \in ThreadIds' \ ThreadIds : \A old \in ThreadIds : new > old
          /\ \A new \in ReplyIds' \ ReplyIds : \A old \in ReplyIds : new > old
          /\ \A new \in PostIds' \ PostIds : \A old \in PostIds : new > old
          /\ ThreadIds \subseteq ThreadIds' /\ ReplyIds \subseteq ReplyIds'
          /\ PostIds \subseteq PostIds'
          /\ resp'.status = 404 => forum' = forum
       ]_vars

\* A forum with one thread and one reply to it has since answered a reply
\* to a thread that does not exist with not-found, and the next reply id is
\* still 2.
C39_Witness ==
    /\ app = "forum"
    /\ Len(forum.threads) = 1
    /\ resp.status = 404
    /\ Len(forum.threads[1].replies) = 1
    /\ forum.next_reply_id = 2

====
